---- MODULE Spec2Model ----
(***************************************************************************)
(* Model of the anomaly scanner of scripts/find_anomalies.py: the line     *)
(* classifier find_anomalies_in_line, the per-file driver analyze_file and *)
(* the run of main that writes anomalies_report.txt; of                    *)
(* scripts/create_summary.py, which parses that report and writes          *)
(* summary_report.txt; and of scripts/create_gephi_graph.py, which builds  *)
(* the graph of the works from the file names.                             *)
(*                                                                         *)
(* A character is its Unicode code point (Python's ord), a string is a     *)
(* sequence of code points.  The character predicates below are Python's   *)
(* (str.isspace, str.isalpha, re's \w \s \d) restricted to CharUniverse.   *)
(***************************************************************************)
EXTENDS Integers, Sequences, FiniteSets, TLC

\* ------------------------------------------------------------------------
\* Bounds of the model
\* ------------------------------------------------------------------------

\* longest line (or tail of a long line) built from the alphabet
MaxLen == 3
\* most lines in a file
MaxLines == 2

\* ------------------------------------------------------------------------
\* Thresholds of the source
\* ------------------------------------------------------------------------

\* is_base64_like: minimum length of a token
Base64MinLen == 40
\* is_likely_chapter_title: a short all-caps title is shorter than this
ShortTitleLen == 30
\* is_normal_latin_usage: letters allowed between parentheses, length of a short word
ParenAbbrevMax == 4
ShortWordLen == 3
\* find_anomalies_in_line: more Latin letters than this make latin_in_russian
LatinThreshold == 3
\* find_anomalies_in_line: chars[:10]
SampleCap == 10
\* main: examples printed per kind, characters printed per example
ConsoleExamples == 3
ConsoleTextMax == 500
\* the superseded revision src/find_anomalies.py kept line.strip()[:200]
LineTextBound == 200
\* create_summary: more unusual_symbols (latin_in_russian) lines than this list
\* a file in section 3 (4); files[:20] are printed in these sections
ManyUnusualSymbols == 100
ManyLatin == 50
TopFiles == 20

\* ------------------------------------------------------------------------
\* Characters
\* ------------------------------------------------------------------------

\* The code points the model draws characters from: ASCII, the Cyrillic
\* letters U+0400..U+045F, NBSP and the typographic symbols the source names.
CharUniverse ==
    (0..127) \cup (1024..1119)
      \cup {160, 167, 171, 176, 187, 8211, 8212, 8218, 8222, 8230, 8249, 8250, 8470}

\* RUSSIAN_CHARS: the 33 upper and 33 lower case Russian letters and the digits.
RUSSIAN_CHARS == (1040..1103) \cup {1025, 1105} \cup (48..57)

\* PUNCTUATION = set('.,;:!?-"()[]{}«»—–…')
PUNCTUATION ==
    {46, 44, 59, 58, 33, 63, 45, 34, 40, 41, 91, 93, 123, 125, 171, 187, 8212, 8211, 8230}

\* WHITESPACE = set(' \n\r\t')
WHITESPACE == {32, 10, 13, 9}

ALLOWED_CHARS == RUSSIAN_CHARS \cup PUNCTUATION \cup WHITESPACE

\* base64_chars of is_base64_like: A-Z a-z 0-9 + / =
base64_chars == (65..90) \cup (97..122) \cup (48..57) \cup {43, 47, 61}

\* normal_symbols = set('—–…‹›‚„«»°№§')
normal_symbols ==
    {8212, 8211, 8230, 8249, 8250, 8218, 8222, 171, 187, 176, 8470, 167}

\* str.isspace / re \s, the characters str.strip() removes.
IsSpace(c) == c \in {9, 10, 11, 12, 13, 28, 29, 30, 31, 32, 133, 160}

\* c.isalpha() and ord(c) < 128
IsLatin(c) == c \in (65..90) \cup (97..122)

\* c.isalpha()
IsAlpha(c) == IsLatin(c) \/ c \in 1024..1119

\* c.isupper() / c.islower() of a single character
IsUpperChar(c) == c \in (65..90) \cup (1024..1071)
IsLowerChar(c) == c \in (97..122) \cup (1072..1119)

\* re \d
IsDigit(c) == c \in 48..57

\* re \w : alphanumeric or underscore
IsWord(c) == IsAlpha(c) \/ IsDigit(c) \/ c = 95

\* str.upper() of one character
UpperChar(c) ==
    IF c \in 97..122 THEN c - 32
    ELSE IF c \in 1072..1103 THEN c - 32
    ELSE IF c \in 1104..1119 THEN c - 80
    ELSE c

\* [IVXLCDM] under re.IGNORECASE
IsRoman(c) == UpperChar(c) \in {73, 86, 88, 76, 67, 68, 77} /\ IsLatin(c)

\* [IVXLCDM\d] under re.IGNORECASE
IsRomanOrDigit(c) == IsRoman(c) \/ IsDigit(c)

\* The class [^\w\sЀ-ӿ.,;:!?\-"()\[\]{}«»—–…°№§] of the run-length check.
IsRunUnusual(c) ==
    /\ ~IsWord(c)
    /\ ~IsSpace(c)
    /\ c \notin 1024..1279
    /\ c \notin PUNCTUATION \cup {176, 8470, 167}

\* ------------------------------------------------------------------------
\* Strings
\* ------------------------------------------------------------------------

Min(a, b) == IF a < b THEN a ELSE b

Rep(c, n) == [i \in 1..n |-> c]

\* s[:n]
Take(s, n) == SubSeq(s, 1, Min(n, Len(s)))

Chars(s) == {s[i] : i \in DOMAIN s}

\* str.strip()
Strip(s) ==
    IF \A i \in DOMAIN s : IsSpace(s[i]) THEN << >>
    ELSE LET first == CHOOSE i \in DOMAIN s :
                          ~IsSpace(s[i]) /\ \A j \in 1..(i - 1) : IsSpace(s[j])
             last  == CHOOSE i \in DOMAIN s :
                          ~IsSpace(s[i]) /\ \A j \in (i + 1)..Len(s) : IsSpace(s[j])
         IN  SubSeq(s, first, last)

\* str.upper()
Upper(s) == [i \in DOMAIN s |-> UpperChar(s[i])]

\* hex(n): '0x' followed by the lower-case hexadecimal digits of n
RECURSIVE HexDigits(_)
HexDigits(n) ==
    LET d == n % 16
        ch == IF d < 10 THEN 48 + d ELSE 87 + d
    IN  IF n < 16 THEN <<ch>> ELSE Append(HexDigits(n \div 16), ch)

Hex(n) == <<48, 120>> \o HexDigits(n)

\* ------------------------------------------------------------------------
\* CHAPTER_PATTERNS, each applied with re.match(pattern, s, re.IGNORECASE)
\* ------------------------------------------------------------------------

\* '$' matches at the end of the string and before a newline that ends it.
BeforeDollar(s) ==
    IF Len(s) > 0 /\ s[Len(s)] = 10 THEN {s, SubSeq(s, 1, Len(s) - 1)} ELSE {s}

\* r'^[IVXLCDM]+$'
MatchesRoman(s) ==
    \E t \in BeforeDollar(s) : Len(t) > 0 /\ \A i \in DOMAIN t : IsRoman(t[i])

\* r'^\d+$'
MatchesNumber(s) ==
    \E t \in BeforeDollar(s) : Len(t) > 0 /\ \A i \in DOMAIN t : IsDigit(t[i])

\* The literal words of the patterns, in upper case: 'ГЛАВА', 'ЧАСТЬ'.
WordGLAVA == <<1043, 1051, 1040, 1042, 1040>>
WordCHAST == <<1063, 1040, 1057, 1058, 1068>>

\* r'^WORD\s+[IVXLCDM\d]+' : the word, one or more spaces, a numeral character.
MatchesHeadingWord(word, s) ==
    /\ Len(s) >= Len(word) + 2
    /\ \A i \in DOMAIN word : UpperChar(s[i]) = word[i]
    /\ \E k \in (Len(word) + 2)..Len(s) :
          /\ \A j \in (Len(word) + 1)..(k - 1) : IsSpace(s[j])
          /\ IsRomanOrDigit(s[k])

\* r'^[ГЧ]\s*[IVXLCDM\d]+' : Г or Ч, any spaces, a numeral character.
MatchesHeadingLetter(s) ==
    /\ Len(s) >= 2
    /\ UpperChar(s[1]) \in {1043, 1063}
    /\ \E k \in 2..Len(s) :
          /\ \A j \in 2..(k - 1) : IsSpace(s[j])
          /\ IsRomanOrDigit(s[k])

MatchesChapterPattern(s) ==
    \/ MatchesRoman(s)
    \/ MatchesHeadingWord(WordGLAVA, s)
    \/ MatchesHeadingWord(WordCHAST, s)
    \/ MatchesHeadingLetter(s)
    \/ MatchesNumber(s)

\* stripped.isupper(): some cased character, and no lower-case one
IsUpperStr(s) ==
    /\ \E i \in DOMAIN s : IsUpperChar(s[i])
    /\ \A i \in DOMAIN s : ~IsLowerChar(s[i])

\* stripped.replace(' ', '').isalpha()
IsAlphaIgnoringSpaces(s) ==
    /\ \E i \in DOMAIN s : s[i] # 32
    /\ \A i \in DOMAIN s : s[i] # 32 => IsAlpha(s[i])

\* len(stripped) < 30 and stripped.isupper() and stripped.replace(' ', '').isalpha()
IsShortUpperTitle(s) ==
    Len(s) < ShortTitleLen /\ IsUpperStr(s) /\ IsAlphaIgnoringSpaces(s)

\* Mutant: only the first chapter pattern is tried.
is_likely_chapter_title_first_pattern(line) ==
    LET stripped == Strip(line)
    IN  IF stripped = << >> THEN FALSE
        ELSE MatchesRoman(stripped) \/ IsShortUpperTitle(stripped)

is_likely_chapter_title(line) ==
    LET stripped == Strip(line)
    IN  IF stripped = << >> THEN FALSE
        ELSE MatchesChapterPattern(stripped) \/ IsShortUpperTitle(stripped)

\* ------------------------------------------------------------------------
\* is_base64_like
\* ------------------------------------------------------------------------

is_base64_like(text) ==
    IF Len(text) < Base64MinLen THEN FALSE
    ELSE /\ Chars(Strip(text)) \subseteq base64_chars
         /\ (61 \in Chars(text) \/ 47 \in Chars(text))
         /\ Len(Strip(text)) > Base64MinLen

\* ------------------------------------------------------------------------
\* is_normal_latin_usage
\* ------------------------------------------------------------------------

\* r'^\([a-zA-Z]{1,4}\)$'
MatchesParenAbbrev(s) ==
    \E t \in BeforeDollar(s) :
        /\ Len(t) \in 3..(ParenAbbrevMax + 2)
        /\ t[1] = 40 /\ t[Len(t)] = 41
        /\ \A i \in 2..(Len(t) - 1) : IsLatin(t[i])

\* common_abbrevs = {'ISBN', 'ISBN:', 'http', 'https', 'www', 'com', 'ru', 'org', 'net'}
common_abbrevs ==
    { <<73, 83, 66, 78>>, <<73, 83, 66, 78, 58>>, <<104, 116, 116, 112>>,
      <<104, 116, 116, 112, 115>>, <<119, 119, 119>>, <<99, 111, 109>>,
      <<114, 117>>, <<111, 114, 103>>, <<110, 101, 116>> }

\* The last position of the run of Latin letters that starts at position i.
LatinRunEnd(line, i) ==
    CHOOSE j \in i..Len(line) :
        /\ (j = Len(line) \/ ~IsLatin(line[j + 1]))
        /\ \A k \in i..j : IsLatin(line[k])

\* re.findall(r'\b[A-Za-z]+\b', line): the maximal runs of Latin letters with
\* a word boundary on both sides, as the pairs <<first, last>> of positions.
LatinWords(line) ==
    LET starts == { i \in DOMAIN line :
                      IsLatin(line[i]) /\ (i = 1 \/ ~IsWord(line[i - 1])) }
    IN  { w \in { <<i, LatinRunEnd(line, i)>> : i \in starts } :
            w[2] = Len(line) \/ ~IsWord(line[w[2] + 1]) }

\* Mutant: a word of up to four letters counts as short.
is_normal_latin_usage_four(line) ==
    LET words == LatinWords(line)
    IN  \/ MatchesRoman(Strip(line))
        \/ MatchesParenAbbrev(Strip(line))
        \/ /\ words # {}
           /\ \A w \in words :
                 \/ Upper(SubSeq(line, w[1], w[2])) \in common_abbrevs
                 \/ w[2] - w[1] + 1 <= ShortWordLen + 1

is_normal_latin_usage(line) ==
    LET stripped == Strip(line)
        words == LatinWords(line)
    IN  \/ MatchesRoman(stripped)
        \/ MatchesParenAbbrev(stripped)
        \/ /\ words # {}
           /\ \A w \in words :
                 \/ Upper(SubSeq(line, w[1], w[2])) \in common_abbrevs
                 \/ w[2] - w[1] + 1 <= ShortWordLen

\* ------------------------------------------------------------------------
\* find_anomalies_in_line
\* ------------------------------------------------------------------------

\* suspicious_chars: the positions, in order, whose character is not in
\* ALLOWED_CHARS
suspicious_chars(line) ==
    SelectSeq([i \in DOMAIN line |-> i], LAMBDA i : line[i] \notin ALLOWED_CHARS)

\* has_russian = any(c in RUSSIAN_CHARS for c in line)
has_russian(line) == \E i \in DOMAIN line : line[i] \in RUSSIAN_CHARS

\* latin_chars: (offset, char) of the suspicious characters that are Latin letters
latin_chars(line) ==
    LET idx == SelectSeq(suspicious_chars(line), LAMBDA i : IsLatin(line[i]))
    IN  [k \in DOMAIN idx |-> <<idx[k] - 1, line[idx[k]]>>]

\* Mutant: the normal symbols are not dropped from other_chars.
other_chars_with_normal_symbols(line) ==
    LET idx == SelectSeq(suspicious_chars(line), LAMBDA i : ~IsLatin(line[i]))
    IN  [k \in DOMAIN idx |-> <<idx[k] - 1, line[idx[k]], Hex(line[idx[k]])>>]

\* other_chars: (offset, char, hex) of the suspicious characters that are neither
\* Latin letters nor normal_symbols
other_chars(line) ==
    LET idx == SelectSeq(suspicious_chars(line),
                         LAMBDA i : ~IsLatin(line[i]) /\ line[i] \notin normal_symbols)
    IN  [k \in DOMAIN idx |-> <<idx[k] - 1, line[idx[k]], Hex(line[idx[k]])>>]

\* Mutant: the run-length pattern is searched only in a line with a character
\* of RUSSIAN_CHARS, like the character-set check.
unusual_pattern_with_russian(line) ==
    /\ has_russian(line)
    /\ \E i \in 1..(Len(line) - 2) : \A j \in i..(i + 2) : IsRunUnusual(line[j])

\* re.search of the run-length pattern: three consecutive unusual characters
unusual_pattern(line) ==
    \E i \in 1..(Len(line) - 2) : \A j \in i..(i + 2) : IsRunUnusual(line[j])

\* Mutant: the line text is cut as in the superseded revision, line.strip()[:200].
TokenRecord_cut(line, line_num) ==
    [type |-> "token_like", line_num |-> line_num,
     line |-> Take(Strip(line), LineTextBound)]

\* The record of a token-like line.
TokenRecord(line, line_num) ==
    [type |-> "token_like", line_num |-> line_num, line |-> Strip(line)]

\* Mutant: three Latin letters are enough (>= instead of >).
LatinRecords_at_least_three(line, line_num) ==
    IF /\ has_russian(line)
       /\ Len(latin_chars(line)) > 0
       /\ ~is_normal_latin_usage(line)
       /\ Len(latin_chars(line)) >= LatinThreshold
    THEN << [type |-> "latin_in_russian", line_num |-> line_num,
             chars |-> Take(latin_chars(line), SampleCap), line |-> Strip(line)] >>
    ELSE << >>

\* The latin_in_russian record, when its condition holds.
LatinRecords(line, line_num) ==
    IF /\ has_russian(line)
       /\ Len(latin_chars(line)) > 0
       /\ ~is_normal_latin_usage(line)
       /\ Len(latin_chars(line)) > LatinThreshold
    THEN << [type |-> "latin_in_russian", line_num |-> line_num,
             chars |-> Take(latin_chars(line), SampleCap), line |-> Strip(line)] >>
    ELSE << >>

\* The unusual_symbols record, when its condition holds.
SymbolRecords(line, line_num) ==
    IF has_russian(line) /\ Len(other_chars(line)) > 0
    THEN << [type |-> "unusual_symbols", line_num |-> line_num,
             chars |-> Take(other_chars(line), SampleCap), line |-> Strip(line)] >>
    ELSE << >>

\* The multiple_unusual_chars record, when its condition holds.
RunRecords(line, line_num) ==
    IF unusual_pattern(line)
    THEN << [type |-> "multiple_unusual_chars", line_num |-> line_num,
             line |-> Strip(line)] >>
    ELSE << >>

\* Mutant: the token record does not end the function (no early return).
find_anomalies_in_line_no_return(line, line_num) ==
    IF Strip(line) = << >> \/ is_likely_chapter_title(line) THEN << >>
    ELSE (IF is_base64_like(Strip(line)) THEN << TokenRecord(line, line_num) >>
          ELSE << >>)
           \o LatinRecords(line, line_num) \o SymbolRecords(line, line_num)
           \o RunRecords(line, line_num)

find_anomalies_in_line(line, line_num) ==
    IF Strip(line) = << >> \/ is_likely_chapter_title(line) THEN << >>
    ELSE IF is_base64_like(Strip(line)) THEN << TokenRecord(line, line_num) >>
    ELSE LatinRecords(line, line_num) \o SymbolRecords(line, line_num)
           \o RunRecords(line, line_num)

\* ------------------------------------------------------------------------
\* analyze_file
\* ------------------------------------------------------------------------

\* for line_num, line in enumerate(lines, 1): the records of every line, in order
RECURSIVE LineRecords(_, _)
LineRecords(lines, n) ==
    IF n > Len(lines) THEN << >>
    ELSE find_anomalies_in_line(lines[n], n) \o LineRecords(lines, n + 1)

\* Mutant: the key is the line number alone.
line_key_line_only(anomaly) == <<anomaly.line_num>>

\* line_key = (line_num, anomaly['type'])
line_key(anomaly) == <<anomaly.line_num, anomaly.type>>

\* A record is appended when its key is not in seen_lines, and its key is added.
RECURSIVE Deduplicate(_, _)
Deduplicate(records, seen_lines) ==
    IF records = << >> THEN << >>
    ELSE LET anomaly == Head(records)
         IN  IF line_key(anomaly) \notin seen_lines
             THEN <<anomaly>> \o Deduplicate(Tail(records),
                                             seen_lines \cup {line_key(anomaly)})
             ELSE Deduplicate(Tail(records), seen_lines)

\* A file on disk is [read, lines]: read is how opening and reading it ends
\* ("utf8": decoded as UTF-8; "cp1251": UTF-8 decoding fails, cp1251 decodes;
\* "undecodable": both decodings fail; "cp1251_unreadable": UTF-8 decoding
\* fails and the second open or read raises another error; "unreadable": the
\* first open or read raises an error that is no decoding error) and lines is
\* what readlines() returns when a decoding succeeds.
\* Bytes that are ASCII only always decode as UTF-8, so a file read as cp1251
\* holds a character above 127.

\* Mutant: cp1251 is tried after any failure of the first read.
open_encodings_any_failure(file) ==
    IF file.read = "utf8" THEN <<"utf-8">> ELSE <<"utf-8", "cp1251">>

\* The encodings analyze_file passes to open(), in order: 'utf-8', and
\* 'cp1251' in the handler of UnicodeDecodeError.
open_encodings(file) ==
    IF file.read \in {"utf8", "unreadable"} THEN <<"utf-8">>
    ELSE <<"utf-8", "cp1251">>

\* Mutant: blank lines are dropped before the lines are counted and numbered.
analyze_file_skip_blank(file) ==
    IF file.read = "unreadable" THEN [error |-> "read_failed"]
    ELSE IF file.read = "undecodable" THEN [error |-> "decode_failed"]
    ELSE IF file.read = "cp1251_unreadable" THEN [error |-> "second_read_failed"]
    ELSE LET kept == SelectSeq(file.lines, LAMBDA l : Strip(l) # << >>)
         IN  [total_lines |-> Len(kept),
              anomalies |-> Deduplicate(LineRecords(kept, 1), {})]

\* The error results name the message: "read_failed" is 'Ошибка при чтении
\* файла: ...' of the outer handler, "decode_failed" and "second_read_failed"
\* are 'Не удалось прочитать файл: ...' of the inner handler with the
\* decoding error and with another error.
analyze_file(file) ==
    IF file.read = "unreadable" THEN [error |-> "read_failed"]
    ELSE IF file.read = "undecodable" THEN [error |-> "decode_failed"]
    ELSE IF file.read = "cp1251_unreadable" THEN [error |-> "second_read_failed"]
    ELSE [total_lines |-> Len(file.lines),
          anomalies |-> Deduplicate(LineRecords(file.lines, 1), {})]

\* ------------------------------------------------------------------------
\* main: grouping, console output and the detailed report
\* ------------------------------------------------------------------------

\* The concatenation of a sequence of sequences, halved at each step so that
\* long reports do not nest deeply.
RECURSIVE Flatten(_)
Flatten(seqs) ==
    IF seqs = << >> THEN << >>
    ELSE IF Len(seqs) = 1 THEN seqs[1]
    ELSE LET half == Len(seqs) \div 2
         IN  Flatten(SubSeq(seqs, 1, half)) \o Flatten(SubSeq(seqs, half + 1, Len(seqs)))

\* One line of output: every line has the same fields, unused ones are empty.
Out(tag, name, kind, num, text, chars) ==
    [tag |-> tag, name |-> name, kind |-> kind, num |-> num, text |-> text,
     chars |-> chars]

\* Python's order of the four kind names as strings.
KindOrder ==
    <<"latin_in_russian", "multiple_unusual_chars", "token_like", "unusual_symbols">>

KindRank(kind) == CHOOSE r \in DOMAIN KindOrder : KindOrder[r] = kind

\* The keys of by_type, in the order the loop inserts them: after the keys
\* already there, every other kind at its first record.
by_type_keys(anomalies, keys) ==
    LET known(a_type) == \E k \in DOMAIN keys : keys[k] = a_type
        inserting == SelectSeq([k \in DOMAIN anomalies |-> k],
                               LAMBDA k : /\ ~known(anomalies[k].type)
                                          /\ \A j \in 1..(k - 1) :
                                                anomalies[j].type # anomalies[k].type)
    IN  keys \o [r \in DOMAIN inserting |-> anomalies[inserting[r]].type]

\* by_type[a_type]
by_type(anomalies, a_type) == SelectSeq(anomalies, LAMBDA a : a.type = a_type)

\* The keys of sorted(by_type.items())
sorted_types(anomalies) ==
    SortSeq(by_type_keys(anomalies, << >>), LAMBDA a, b : KindRank(a) < KindRank(b))

\* The names of the input files, listed in the order Path objects compare.
FileNames == <<"a.txt", "b.txt">>

NameRank(name) == CHOOSE r \in DOMAIN FileNames : FileNames[r] = name

\* Mutant: the files are visited in the order glob lists them.
sorted_files_unsorted(txt_files) == txt_files

\* sorted(txt_files)
sorted_files(txt_files) ==
    SortSeq(txt_files, LAMBDA a, b : NameRank(a) < NameRank(b))

\* The orders glob('*.txt') may list a directory in.
GlobOrders(names) ==
    { order \in [1..Cardinality(names) -> names] :
        \A i, j \in DOMAIN order : i # j => order[i] # order[j] }

\* The console lines of one example: the text is cut at 500 characters.
ConsoleExample(anomaly) ==
    Out("example", "", "", anomaly.line_num,
        IF Len(anomaly.line) > ConsoleTextMax
        THEN Take(anomaly.line, ConsoleTextMax) \o <<46, 46, 46>>
        ELSE anomaly.line,
        << >>)

\* The console lines of one kind of one file.
ConsoleType(anomalies, a_type) ==
    LET type_anomalies == by_type(anomalies, a_type)
        shown == Take(type_anomalies, ConsoleExamples)
    IN  <<Out("type", "", a_type, Len(type_anomalies), << >>, << >>)>>
          \o [k \in DOMAIN shown |-> ConsoleExample(shown[k])]
          \o (IF Len(type_anomalies) > ConsoleExamples
              THEN <<Out("more", "", "", Len(type_anomalies) - ConsoleExamples,
                         << >>, << >>)>>
              ELSE << >>)

\* What the loop of main prints for one file.
ConsoleFile(name, result) ==
    IF "error" \in DOMAIN result
    THEN <<Out("failed", name, result.error, 0, << >>, << >>)>>
    ELSE IF result.anomalies = << >> THEN << >>
    ELSE LET types == sorted_types(result.anomalies)
         IN  <<Out("file", name, "", result.total_lines, << >>, << >>)>>
               \o Flatten([k \in DOMAIN types |->
                              ConsoleType(result.anomalies, types[k])])

\* The report lines of one anomaly.
ReportAnomaly(anomaly) ==
    <<Out("line_num", "", "", anomaly.line_num, << >>, << >>),
      Out("text", "", "", 0, anomaly.line, << >>)>>
      \o (IF "chars" \in DOMAIN anomaly
          THEN <<Out("chars", "", "", 0, << >>, anomaly.chars)>>
          ELSE << >>)

\* The report lines of one kind of one file.
ReportType(anomalies, a_type) ==
    LET type_anomalies == by_type(anomalies, a_type)
    IN  <<Out("type", "", a_type, Len(type_anomalies), << >>, << >>),
          Out("dashes", "", "", 0, << >>, << >>)>>
          \o Flatten([k \in DOMAIN type_anomalies |-> ReportAnomaly(type_anomalies[k])])

\* The report section of one file: entry is (filename, anomalies).
ReportSection(entry) ==
    LET types == sorted_types(entry[2])
    IN  <<Out("rule", "", "", 0, << >>, << >>),
          Out("file", entry[1], "", 0, << >>, << >>),
          Out("total", "", "", Len(entry[2]), << >>, << >>),
          Out("rule", "", "", 0, << >>, << >>)>>
          \o Flatten([k \in DOMAIN types |-> ReportType(entry[2], types[k])])

\* Everything main writes to anomalies_report.txt.
ReportContent(files_with_anomalies) ==
    <<Out("title", "", "", 0, << >>, << >>), Out("rule", "", "", 0, << >>, << >>)>>
      \o Flatten([k \in DOMAIN files_with_anomalies |->
                     ReportSection(files_with_anomalies[k])])

\* ------------------------------------------------------------------------
\* anomalies_report.txt as text: what main's f.write calls put on each line
\* ------------------------------------------------------------------------

\* str(n) of a natural number
RECURSIVE Dec(_)
Dec(n) == IF n < 10 THEN <<48 + n>> ELSE Append(Dec(n \div 10), 48 + (n % 10))

\* The characters of a file name: texts/ holds a.txt and b.txt, the corpus of
\* an earlier run held w01.txt .. w21.txt.
NameText(name) ==
    CASE
       name = "a.txt" -> <<97, 46, 116, 120, 116>>
    [] name = "b.txt" -> <<98, 46, 116, 120, 116>>
    [] name = "w01.txt" -> <<119, 48, 49, 46, 116, 120, 116>>
    [] name = "w02.txt" -> <<119, 48, 50, 46, 116, 120, 116>>
    [] name = "w03.txt" -> <<119, 48, 51, 46, 116, 120, 116>>
    [] name = "w04.txt" -> <<119, 48, 52, 46, 116, 120, 116>>
    [] name = "w05.txt" -> <<119, 48, 53, 46, 116, 120, 116>>
    [] name = "w06.txt" -> <<119, 48, 54, 46, 116, 120, 116>>
    [] name = "w07.txt" -> <<119, 48, 55, 46, 116, 120, 116>>
    [] name = "w08.txt" -> <<119, 48, 56, 46, 116, 120, 116>>
    [] name = "w09.txt" -> <<119, 48, 57, 46, 116, 120, 116>>
    [] name = "w10.txt" -> <<119, 49, 48, 46, 116, 120, 116>>
    [] name = "w11.txt" -> <<119, 49, 49, 46, 116, 120, 116>>
    [] name = "w12.txt" -> <<119, 49, 50, 46, 116, 120, 116>>
    [] name = "w13.txt" -> <<119, 49, 51, 46, 116, 120, 116>>
    [] name = "w14.txt" -> <<119, 49, 52, 46, 116, 120, 116>>
    [] name = "w15.txt" -> <<119, 49, 53, 46, 116, 120, 116>>
    [] name = "w16.txt" -> <<119, 49, 54, 46, 116, 120, 116>>
    [] name = "w17.txt" -> <<119, 49, 55, 46, 116, 120, 116>>
    [] name = "w18.txt" -> <<119, 49, 56, 46, 116, 120, 116>>
    [] name = "w19.txt" -> <<119, 49, 57, 46, 116, 120, 116>>
    [] name = "w20.txt" -> <<119, 50, 48, 46, 116, 120, 116>>
    [] name = "w21.txt" -> <<119, 50, 49, 46, 116, 120, 116>>

\* The characters of a kind name.
KindText(kind) ==
    CASE kind = "token_like" -> <<116, 111, 107, 101, 110, 95, 108, 105, 107, 101>>
      [] kind = "latin_in_russian" -> <<108, 97, 116, 105, 110, 95, 105, 110, 95, 114, 117, 115, 115, 105, 97, 110>>
      [] kind = "unusual_symbols" -> <<117, 110, 117, 115, 117, 97, 108, 95, 115, 121, 109, 98, 111, 108, 115>>
      [] kind = "multiple_unusual_chars" ->
            <<109, 117, 108, 116, 105, 112, 108, 101, 95, 117, 110, 117, 115, 117, 97, 108, 95, 99, 104, 97, 114, 115>>

\* 'Файл:', 'Тип:', 'Строка ' and the other fixed texts of the report
TextFile == <<1060, 1072, 1081, 1083, 58>>
TextType == <<1058, 1080, 1087, 58>>
TextRow == <<1057, 1090, 1088, 1086, 1082, 1072, 32>>
TextCases == <<32, 1089, 1083, 1091, 1095, 1072, 1077, 1074, 41>>
TextTotal == <<1042, 1089, 1077, 1075, 1086, 32, 1072, 1085, 1086, 1084, 1072, 1083, 1080, 1081, 58, 32>>
TextChars == <<1055, 1086, 1076, 1086, 1079, 1088, 1080, 1090, 1077, 1083, 1100, 1085, 1099, 1077, 32, 1089, 1080, 1084, 1074, 1086, 1083, 1099, 58, 32>>
TextTitle ==
    <<1054, 1058, 1063, 1045, 1058, 32, 1054, 1041, 32, 1040, 1053, 1054, 1052, 1040, 1051, 1048, 1071, 1061, 32, 1042, 32, 1058, 1045, 1050, 1057, 1058, 1054, 1042, 1067, 1061, 32, 1060, 1040, 1049, 1051, 1040, 1061>>

\* One tuple of chars as the list is printed: (7, 'W') or (7, '#', '0x23').
\* The escapes repr() uses for quotes and unprintable characters are not
\* rendered: the line starts with 'Подозрительные символы: ' whatever follows.
CharTupleText(t) ==
    <<40>> \o Dec(t[1]) \o <<44, 32, 39, t[2], 39>>
      \o (IF Len(t) = 3 THEN <<44, 32, 39>> \o t[3] \o <<39>> ELSE << >>)
      \o <<41>>

\* f"Подозрительные символы: {anomaly['chars']}"
CharsText(chars) ==
    TextChars \o <<91>>
      \o Flatten([k \in DOMAIN chars |->
                     (IF k > 1 THEN <<44, 32>> ELSE << >>) \o CharTupleText(chars[k])])
      \o <<93>>

\* The text of one written line, without its newline.  The empty lines that
\* the '\n' at the start and end of some writes add are left out: no branch of
\* the parser applies to an empty line.
LineText(out) ==
    CASE out.tag = "title" -> TextTitle
      [] out.tag = "rule" -> Rep(61, 80)
      [] out.tag = "dashes" -> Rep(45, 80)
      [] out.tag = "file" -> TextFile \o <<32>> \o NameText(out.name)
      [] out.tag = "total" -> TextTotal \o Dec(out.num)
      [] out.tag = "type" ->
            TextType \o <<32>> \o KindText(out.kind) \o <<32, 40>> \o Dec(out.num) \o TextCases
      [] out.tag = "line_num" -> TextRow \o Dec(out.num) \o <<58>>
      [] out.tag = "text" -> out.text
      [] out.tag = "chars" -> CharsText(out.chars)

\* The lines of anomalies_report.txt, as iterating over the open file gives them.
ReportText(content) == [k \in DOMAIN content |-> LineText(content[k])]

\* ------------------------------------------------------------------------
\* parse_anomalies_report
\* ------------------------------------------------------------------------

\* str.startswith
StartsWith(s, prefix) ==
    Len(s) >= Len(prefix) /\ SubSeq(s, 1, Len(prefix)) = prefix

\* s.replace(pat, ''): every occurrence of pat is removed, from the left
RECURSIVE RemoveAll(_, _)
RemoveAll(s, pat) ==
    IF Len(s) < Len(pat) THEN s
    ELSE IF StartsWith(s, pat) THEN RemoveAll(SubSeq(s, Len(pat) + 1, Len(s)), pat)
    ELSE <<Head(s)>> \o RemoveAll(Tail(s), pat)

\* int(digits)
RECURSIVE IntOf(_)
IntOf(digits) ==
    IF digits = << >> THEN 0
    ELSE 10 * IntOf(SubSeq(digits, 1, Len(digits) - 1)) + (digits[Len(digits)] - 48)

\* The last position of the run of \w (of \d) characters that starts at
\* position i; i - 1 when there is none.
WordRunEnd(s, i) ==
    CHOOSE j \in (i - 1)..Len(s) :
        /\ \A k \in i..j : IsWord(s[k])
        /\ (j = Len(s) \/ ~IsWord(s[j + 1]))

DigitRunEnd(s, i) ==
    CHOOSE j \in (i - 1)..Len(s) :
        /\ \A k \in i..j : IsDigit(s[k])
        /\ (j = Len(s) \/ ~IsDigit(s[j + 1]))

\* The branches of the loop body, tried in this order.
IsFileLine(s) == StartsWith(s, TextFile)
IsTypeLine(s) == ~IsFileLine(s) /\ StartsWith(s, TextType)
IsRowLine(s) == ~IsFileLine(s) /\ ~IsTypeLine(s) /\ StartsWith(s, TextRow)

\* filename = line.replace('Файл:', '').strip()
FileNameOf(s) == Strip(RemoveAll(s, TextFile))

\* re.match(r'Тип: (\w+) \(\d+ случаев\)', line): group 1, or << >> when the
\* line does not match.
TypeWord(s) ==
    LET first == Len(TextType) + 2
        w == WordRunEnd(s, first)
        d == DigitRunEnd(s, w + 3)
    IN  IF /\ StartsWith(s, TextType \o <<32>>)
           /\ w >= first
           /\ Len(s) >= w + 2 /\ s[w + 1] = 32 /\ s[w + 2] = 40
           /\ d >= w + 3
           /\ SubSeq(s, d + 1, Min(d + Len(TextCases), Len(s))) = TextCases
        THEN SubSeq(s, first, w)
        ELSE << >>

\* re.match(r'Строка (\d+):', line): int(group 1), or -1 when the line does
\* not match.
RowNumber(s) ==
    LET first == Len(TextRow) + 1
        d == DigitRunEnd(s, first)
    IN  IF StartsWith(s, TextRow) /\ d >= first /\ Len(s) > d /\ s[d + 1] = 58
        THEN IntOf(SubSeq(s, first, d))
        ELSE -1

\* The keys of the dictionary made for every file.
ParsedKinds ==
    {"token_like", "unusual_symbols", "latin_in_russian", "multiple_unusual_chars"}

\* The largest member of a set of positions.
MaxOf(S) == CHOOSE x \in S : \A y \in S : y <= x

\* The positions from lo to hi, in order, that are in S.
Ascending(S, lo, hi) ==
    SelectSeq([k \in 1..(hi - lo + 1) |-> lo + k - 1], LAMBDA i : i \in S)

\* The loop over the lines of the report.  current_file at a line is the name
\* of the last 'Файл:' line before it, current_type the word of the last
\* matching 'Тип:' line before it; a 'Строка n:' line appends n to
\* files_data[current_file][current_type] when both are set, which raises
\* KeyError for a word that is no key; a 'Файл:' line makes the lists of its
\* name empty again.  The result is [missing] for None, [raised] for the
\* exception, and otherwise the (filename, lists) items of files_data in
\* insertion order.
parse_anomalies_report(report) ==
    IF ~report.exists THEN [missing |-> TRUE]
    ELSE
    LET raw == ReportText(report.content)
        lines == [k \in DOMAIN raw |-> Strip(raw[k])]
        n == Len(lines)
        file_at == {k \in 1..n : IsFileLine(lines[k])}
        type_at == {k \in 1..n : IsTypeLine(lines[k]) /\ TypeWord(lines[k]) # << >>}
        row_at == {k \in 1..n : IsRowLine(lines[k]) /\ RowNumber(lines[k]) >= 0}
        name_of == [j \in file_at |-> FileNameOf(lines[j])]
        word_of == [j \in type_at |-> TypeWord(lines[j])]
        \* the position of the line that set current_file / current_type, 0 for None
        file_pos == [i \in row_at |->
                        IF \E j \in file_at : j < i
                        THEN MaxOf({j \in file_at : j < i}) ELSE 0]
        type_pos == [i \in row_at |->
                        IF \E j \in type_at : j < i
                        THEN MaxOf({j \in type_at : j < i}) ELSE 0]
        \* the lines that append: 'if match and current_file and current_type'
        appends == {i \in row_at :
                       /\ file_pos[i] # 0 /\ name_of[file_pos[i]] # << >>
                       /\ type_pos[i] # 0}
        key_of == [i \in appends |-> word_of[type_pos[i]]]
        \* the first and the last 'Файл:' line of every name
        first_at == {k \in file_at : \A j \in file_at : name_of[j] = name_of[k] => j >= k}
        last_of == [k \in first_at |-> MaxOf({j \in file_at : name_of[j] = name_of[k]})]
        \* the last line before the next 'Файл:' line
        end_of == [k \in first_at |->
                      IF \E j \in file_at : j > last_of[k]
                      THEN -MaxOf({-j : j \in {j \in file_at : j > last_of[k]}}) - 1
                      ELSE n]
        keys == Ascending(first_at, 1, n)
        kind_rows(k, kind) ==
            LET got == Ascending({i \in appends : key_of[i] = KindText(kind)},
                                 last_of[k], end_of[k])
            IN  [r \in DOMAIN got |-> RowNumber(lines[got[r]])]
    IN  IF \E i \in appends : \A kind \in ParsedKinds : key_of[i] # KindText(kind)
        THEN [raised |-> "KeyError"]
        ELSE [files |-> [r \in DOMAIN keys |->
                            [filename |-> name_of[keys[r]],
                             lists |-> [kind \in ParsedKinds |->
                                           kind_rows(keys[r], kind)]]]]

\* ------------------------------------------------------------------------
\* create_summary
\* ------------------------------------------------------------------------

\* One line of the summary: every line has the same fields, unused ones are
\* 0 or empty.  section is 1 for the tokens, 2 for the multiple unusual
\* characters, 3 for the many unusual symbols, 4 for the much Latin.
SummaryLine(tag, section, name, num) ==
    [tag |-> tag, section |-> section, name |-> name, num |-> num]

\* The (filename, count) pairs of the files with more than least lines of a
\* kind, in the order of data.items().
files_with(files, kind, least) ==
    LET chosen == SelectSeq(files, LAMBDA e : Len(e.lists[kind]) > least)
    IN  [k \in DOMAIN chosen |-> <<chosen[k].filename, Len(chosen[k].lists[kind])>>]

\* Mutant: the files are left in the order of data.items().
sort_by_count_unsorted(pairs) == pairs

\* pairs.sort(key=lambda x: x[1], reverse=True): by count, largest first; the
\* sort is stable, pairs with the same count keep their order.
sort_by_count(pairs) ==
    LET before(j, k) ==
            pairs[j][2] > pairs[k][2] \/ (pairs[j][2] = pairs[k][2] /\ j < k)
        place(k) == 1 + Cardinality({j \in DOMAIN pairs : before(j, k)})
    IN  [r \in DOMAIN pairs |-> pairs[CHOOSE k \in DOMAIN pairs : place(k) = r]]

\* The lines of one section: its heading, and either the number of files and
\* the shown pairs, with the number of the pairs not shown if there are any,
\* or the line that says nothing was found.
SectionLines(section, pairs, shown) ==
    <<SummaryLine("heading", section, << >>, 0),
      SummaryLine("dashes", 0, << >>, 0)>>
      \o (IF pairs # << >>
          THEN <<SummaryLine("found", section, << >>, Len(pairs)),
                 SummaryLine("empty", 0, << >>, 0)>>
                 \o [k \in DOMAIN shown |->
                        SummaryLine("entry", section, shown[k][1], shown[k][2])]
                 \o (IF Len(pairs) > Len(shown)
                     THEN <<SummaryLine("more", section, << >>, Len(pairs) - Len(shown))>>
                     ELSE << >>)
          ELSE <<SummaryLine("none", section, << >>, 0)>>)
      \o <<SummaryLine("empty", 0, << >>, 0)>>

\* The list summary of create_summary for the parsed files.
SummaryContent(files) ==
    LET files_with_tokens == sort_by_count(files_with(files, "token_like", 0))
        files_with_multiple_unusual ==
            sort_by_count(files_with(files, "multiple_unusual_chars", 0))
        files_with_unusual_symbols ==
            sort_by_count(files_with(files, "unusual_symbols", ManyUnusualSymbols))
        files_with_latin ==
            sort_by_count(files_with(files, "latin_in_russian", ManyLatin))
    IN  <<SummaryLine("rule", 0, << >>, 0),
          SummaryLine("title", 0, << >>, 0),
          SummaryLine("rule", 0, << >>, 0),
          SummaryLine("empty", 0, << >>, 0)>>
          \o SectionLines(1, files_with_tokens, files_with_tokens)
          \o SectionLines(2, files_with_multiple_unusual, files_with_multiple_unusual)
          \o SectionLines(3, files_with_unusual_symbols,
                          Take(files_with_unusual_symbols, TopFiles))
          \o SectionLines(4, files_with_latin, Take(files_with_latin, TopFiles))
          \o <<SummaryLine("rule", 0, << >>, 0),
               SummaryLine("statistics", 0, << >>, 0),
               SummaryLine("rule", 0, << >>, 0),
               SummaryLine("files_total", 0, << >>, Len(files)),
               SummaryLine("files", 1, << >>, Len(files_with_tokens)),
               SummaryLine("files", 2, << >>, Len(files_with_multiple_unusual)),
               SummaryLine("files", 3, << >>, Len(files_with_unusual_symbols)),
               SummaryLine("files", 4, << >>, Len(files_with_latin)),
               SummaryLine("empty", 0, << >>, 0),
               SummaryLine("note", 0, << >>, 0),
               SummaryLine("note", 1, << >>, 0),
               SummaryLine("note", 4, << >>, 0),
               SummaryLine("note", 3, << >>, 0),
               SummaryLine("rule", 0, << >>, 0)>>

\* 'Файл anomalies_report.txt не найден. Сначала запустите find_anomalies.py'
ReportNotFound == SummaryLine("report_not_found", 0, << >>, 0)

\* 'if not data': None and the empty dictionary
NoData(parsed) ==
    "missing" \in DOMAIN parsed \/ ("files" \in DOMAIN parsed /\ parsed.files = << >>)

\* ------------------------------------------------------------------------
\* State
\* ------------------------------------------------------------------------

VARIABLES
    \* the classifier applied to one line
    line,                 \* the line handed to find_anomalies_in_line
    line_num,             \* its line number
    anomalies,            \* what find_anomalies_in_line returned
    file_result,          \* what analyze_file returned for a file ending in line
    lpc,                  \* "ready", "classified", "analyzed"
    \* a run of main
    disk,                 \* texts/: file name -> [read, lines]
    report_file,          \* anomalies_report.txt: [exists, content]
    pc,                   \* "start", "scan", "done"
    run,                  \* "first", "second"
    txt_files,            \* list(texts_dir.glob('*.txt'))
    queue,                \* the files the loop has still to visit
    result,               \* result of the last analyze_file
    scanned,              \* the files analyze_file was called on, in order
    files_with_anomalies, \* (filename, anomalies) pairs
    console,              \* what was printed
    written,              \* how often this run opened the report for writing
    first_run,            \* [glob, report] of the first run, for the second
    opened,               \* the encodings the last analyze_file opened its file with
    \* create_summary
    data,                 \* what parse_anomalies_report returned
    summary_file,         \* summary_report.txt: [exists, content]
    summary_console,      \* what create_summary printed
    spc,                  \* "ready", "returned", "written", "raised"
    \* create_gephi_graph
    texts_dir,            \* the names of the *.txt files of texts/
    gqueue,               \* the files the first loop has still to visit
    works,                \* the parsed file names, in order
    authors_to_works,     \* (author, works) pairs in insertion order
    nodes,                \* the node elements written so far
    node_map,             \* filename -> node id
    author_queue,         \* the authors the edge loop has still to visit
    edges,                \* the edge elements written so far
    edge_set,             \* the keys of the edges written so far
    edge_id,              \* the id of the next edge
    output_file,          \* russian_sf_graph.gexf: [exists, nodes, edges]
    gpc                   \* "start", "collect", "nodes", "edges", "done"

line_vars == <<line, line_num, anomalies, file_result, lpc>>
run_vars == <<disk, report_file, pc, run, txt_files, queue, result, scanned,
              files_with_anomalies, console, written, first_run, opened>>
summary_vars == <<data, summary_file, summary_console, spc>>
graph_vars == <<texts_dir, gqueue, works, authors_to_works, nodes, node_map,
                author_queue, edges, edge_set, edge_id, output_file, gpc>>
vars == <<line_vars, run_vars, summary_vars, graph_vars>>

\* ------------------------------------------------------------------------
\* Inputs
\* ------------------------------------------------------------------------

SeqsUpTo(S, n) == UNION { [1..k -> S] : k \in 0..n }

\* space, newline, NBSP, 'A', 'X', '1', '=', '/', 'Г', 'п', '.', '‹', '#'
Alphabet == {32, 10, 160, 65, 88, 49, 61, 47, 1043, 1087, 46, 8249, 35}

\* 'A', '=', space, '1', 'п', '#'
TailAlphabet == {65, 61, 32, 49, 1087, 35}

\* Long starts of a line: runs of 'A' around the token length and at the Latin
\* threshold, a run of 'А' (Cyrillic) around the short title length, a run of
\* '#' at the sample cap, and the heading words 'ГЛАВА', 'глава', 'ЧАСТЬ'.
Prefixes ==
    { Rep(65, k) : k \in (Base64MinLen - 3)..(Base64MinLen + 1) }
      \cup { Rep(65, LatinThreshold),
             Rep(1040, ShortTitleLen - 2), Rep(35, SampleCap),
             WordGLAVA, WordCHAST, <<1075, 1083, 1072, 1074, 1072>> }

\* 'Привет XYZ мир', 'Привет WXYZ мир', 44 'A' followed by '=='
ScenarioLines ==
    { <<1055, 1088, 1080, 1074, 1077, 1090, 32, 88, 89, 90, 32, 1084, 1080, 1088>>,
      <<1055, 1088, 1080, 1074, 1077, 1090, 32, 87, 88, 89, 90, 32, 1084, 1080, 1088>>,
      Rep(65, 44) \o <<61, 61>> }

\* Lines of Cyrillic text that name an abbreviation of common_abbrevs:
\* 'см. http', 'см. HTTP', 'см. https', 'см. ISBN', 'см. isbn', 'см. www com net'
AbbrevLines ==
    { <<1089, 1084, 46, 32, 104, 116, 116, 112>>,
      <<1089, 1084, 46, 32, 72, 84, 84, 80>>,
      <<1089, 1084, 46, 32, 104, 116, 116, 112, 115>>,
      <<1089, 1084, 46, 32, 73, 83, 66, 78>>,
      <<1089, 1084, 46, 32, 105, 115, 98, 110>>,
      <<1089, 1084, 46, 32, 119, 119, 119, 32, 99, 111, 109, 32, 110, 101, 116>> }

\* Lines with the signs the run-length pattern excludes next to the
\* punctuation: '§§§', 'п §§§', '°№§', 'п#§§', '#§#§#'
SignLines ==
    { <<167, 167, 167>>,
      <<1087, 32, 167, 167, 167>>,
      <<176, 8470, 167>>,
      <<1087, 35, 167, 167>>,
      <<35, 167, 35, 167, 35>> }

\* Lines longer than the line text bound of the superseded revision, which
\* kept line.strip()[:200]: 200 'A' and one more character.
LongLines == { Rep(65, LineTextBound) \o <<c>> : c \in TailAlphabet }

Lines ==
    SeqsUpTo(Alphabet, MaxLen)
      \cup { p \o t : p \in Prefixes, t \in SeqsUpTo(TailAlphabet, MaxLen) }
      \cup ScenarioLines
      \cup AbbrevLines
      \cup SignLines
      \cup LongLines

LineNums == {1, 3}

\* The lines of the files of a run, each as readlines() returns it: an empty
\* line, a token of 41 'A' and '=', and 'Привет WXYZ #‹‹', which has Latin
\* letters, an unusual symbol and a run of three unusual characters.
SampleLines ==
    { <<10>>,
      Rep(65, Base64MinLen + 1) \o <<61, 10>>,
      <<1055, 1088, 1080, 1074, 1077, 1090, 32,
        87, 88, 89, 90, 32, 35, 8249, 8249, 10>> }

Files ==
    { [read |-> "utf8", lines |-> ls] : ls \in SeqsUpTo(SampleLines, MaxLines) }
      \cup { [read |-> "cp1251", lines |-> <<l>>] :
                l \in {sl \in SampleLines : \E i \in DOMAIN sl : sl[i] > 127} }
      \cup { [read |-> r, lines |-> << >>] :
                r \in {"undecodable", "cp1251_unreadable", "unreadable"} }

NameSet == {FileNames[i] : i \in DOMAIN FileNames}

Disks == UNION { [names -> Files] : names \in SUBSET NameSet }

NoFile == [exists |-> FALSE, content |-> << >>]

\* A report left by an earlier run over other files.
StaleReport ==
    [exists |-> TRUE,
     content |-> ReportContent(<< <<"old.txt", <<TokenRecord(<<61>>, 1)>> >> >>)]

NoResult == [none |-> TRUE]

\* ------------------------------------------------------------------------
\* The classifier on one line
\* ------------------------------------------------------------------------

LineIdle ==
    /\ line = << >> /\ line_num = 0 /\ anomalies = << >>
    /\ file_result = NoResult /\ lpc = "off"

RunIdle ==
    /\ disk = << >> /\ report_file = NoFile /\ pc = "off" /\ run = "first"
    /\ txt_files = << >> /\ queue = << >> /\ result = NoResult
    /\ scanned = << >> /\ files_with_anomalies = << >> /\ console = << >>
    /\ written = 0 /\ first_run = NoResult /\ opened = << >>

SummaryIdle ==
    /\ data = NoResult /\ summary_file = NoFile /\ summary_console = << >>
    /\ spc = "off"

NoGraph == [exists |-> FALSE, nodes |-> << >>, edges |-> << >>]

GraphIdle ==
    /\ texts_dir = {} /\ gqueue = << >> /\ works = << >>
    /\ authors_to_works = << >> /\ nodes = << >> /\ node_map = << >>
    /\ author_queue = << >> /\ edges = << >> /\ edge_set = {} /\ edge_id = 0
    /\ output_file = NoGraph /\ gpc = "off"

LineInit ==
    /\ line \in Lines
    /\ line_num \in LineNums
    /\ anomalies = << >>
    /\ file_result = NoResult
    /\ lpc = "ready"
    /\ RunIdle
    /\ SummaryIdle
    /\ GraphIdle

\* anomalies = find_anomalies_in_line(line, line_num)
Classify ==
    /\ lpc = "ready"
    /\ anomalies' = find_anomalies_in_line(line, line_num)
    /\ lpc' = "classified"
    /\ UNCHANGED <<line, line_num, file_result, run_vars, summary_vars, graph_vars>>

\* The file whose line number line_num is line, after empty lines.
FileEndingIn(l, n) == [read |-> "utf8", lines |-> Rep(<<10>>, n - 1) \o <<l>>]

\* What readlines() can return as the last line of a file: not empty, and no
\* newline before its last character.
IsReadLine(l) == Len(l) > 0 /\ \A i \in 1..(Len(l) - 1) : l[i] # 10

\* analyze_file on a file whose last line is line
Analyze ==
    /\ lpc = "classified"
    /\ IsReadLine(line)
    /\ file_result' = analyze_file(FileEndingIn(line, line_num))
    /\ lpc' = "analyzed"
    /\ UNCHANGED <<line, line_num, anomalies, run_vars, summary_vars, graph_vars>>

LineNext == Classify \/ Analyze

LineSpec == LineInit /\ [][LineNext]_vars

\* ------------------------------------------------------------------------
\* main
\* ------------------------------------------------------------------------

Init ==
    /\ disk \in Disks
    /\ report_file \in {NoFile, StaleReport}
    /\ pc = "start"
    /\ run = "first"
    /\ txt_files = << >>
    /\ queue = << >>
    /\ result = NoResult
    /\ scanned = << >>
    /\ files_with_anomalies = << >>
    /\ console = << >>
    /\ written = 0
    /\ first_run = NoResult
    /\ opened = << >>
    /\ LineIdle
    /\ SummaryIdle
    /\ GraphIdle

\* Mutant: the message is printed but main does not return, and goes on to
\* write a report without sections.
NoInput_no_return ==
    /\ pc = "start"
    /\ DOMAIN disk = {}
    /\ txt_files' = << >>
    /\ console' = Append(console, Out("no_txt_files", "", "", 0, << >>, << >>))
    /\ report_file' = [exists |-> TRUE, content |-> ReportContent(<< >>)]
    /\ written' = written + 1
    /\ pc' = "done"
    /\ UNCHANGED <<disk, run, queue, result, scanned, files_with_anomalies,
                   first_run, opened, line_vars, summary_vars, graph_vars>>

\* if not txt_files: print(...); return
NoInput ==
    /\ pc = "start"
    /\ DOMAIN disk = {}
    /\ txt_files' = << >>
    /\ console' = Append(console, Out("no_txt_files", "", "", 0, << >>, << >>))
    /\ pc' = "done"
    /\ UNCHANGED <<disk, report_file, run, queue, result, scanned,
                   files_with_anomalies, written, first_run, opened, line_vars,
                   summary_vars, graph_vars>>

\* txt_files = list(texts_dir.glob('*.txt')); for txt_file in sorted(txt_files)
Glob ==
    /\ pc = "start"
    /\ DOMAIN disk # {}
    /\ \E order \in GlobOrders(DOMAIN disk) :
          /\ txt_files' = order
          /\ queue' = sorted_files(order)
          /\ console' = Append(console, Out("found", "", "", Len(order), << >>, << >>))
    /\ files_with_anomalies' = << >>
    /\ pc' = "scan"
    /\ UNCHANGED <<disk, report_file, run, result, scanned, written, first_run,
                   opened, line_vars, summary_vars, graph_vars>>

\* Mutant: an error result ends the loop (break instead of continue).
ScanFile_break ==
    /\ pc = "scan"
    /\ queue # << >>
    /\ LET txt_file == Head(queue)
           res == analyze_file(disk[txt_file])
       IN  /\ result' = res
           /\ opened' = open_encodings(disk[txt_file])
           /\ scanned' = Append(scanned, txt_file)
           /\ console' = console \o ConsoleFile(txt_file, res)
           /\ files_with_anomalies' =
                 IF "error" \notin DOMAIN res /\ res.anomalies # << >>
                 THEN Append(files_with_anomalies, <<txt_file, res.anomalies>>)
                 ELSE files_with_anomalies
           /\ queue' = IF "error" \in DOMAIN res THEN << >> ELSE Tail(queue)
    /\ UNCHANGED <<disk, report_file, pc, run, txt_files, written, first_run,
                   line_vars, summary_vars, graph_vars>>

\* One iteration of the loop over sorted(txt_files).
ScanFile ==
    /\ pc = "scan"
    /\ queue # << >>
    /\ LET txt_file == Head(queue)
           res == analyze_file(disk[txt_file])
       IN  /\ result' = res
           /\ opened' = open_encodings(disk[txt_file])
           /\ scanned' = Append(scanned, txt_file)
           /\ console' = console \o ConsoleFile(txt_file, res)
           /\ files_with_anomalies' =
                 IF "error" \notin DOMAIN res /\ res.anomalies # << >>
                 THEN Append(files_with_anomalies, <<txt_file, res.anomalies>>)
                 ELSE files_with_anomalies
    /\ queue' = Tail(queue)
    /\ UNCHANGED <<disk, report_file, pc, run, txt_files, written, first_run,
                   line_vars, summary_vars, graph_vars>>

\* After the loop: the totals are printed and the detailed report is written.
WriteReport ==
    /\ pc = "scan"
    /\ queue = << >>
    /\ report_file' = [exists |-> TRUE, content |-> ReportContent(files_with_anomalies)]
    /\ written' = written + 1
    /\ console' = console
          \o <<Out("total", "", "", Len(files_with_anomalies), << >>, << >>),
               Out("checked", "", "", Len(txt_files), << >>, << >>),
               Out("saved", "", "", 0, << >>, << >>)>>
    /\ pc' = "done"
    /\ UNCHANGED <<disk, run, txt_files, queue, result, scanned,
                   files_with_anomalies, first_run, opened, line_vars,
                   summary_vars, graph_vars>>

\* main is run a second time on the same files.
Rerun ==
    /\ pc = "done"
    /\ run = "first"
    /\ first_run' = [glob |-> txt_files, report |-> report_file]
    /\ run' = "second"
    /\ pc' = "start"
    /\ txt_files' = << >>
    /\ queue' = << >>
    /\ result' = NoResult
    /\ scanned' = << >>
    /\ files_with_anomalies' = << >>
    /\ console' = << >>
    /\ written' = 0
    /\ opened' = << >>
    /\ UNCHANGED <<disk, report_file, line_vars, summary_vars, graph_vars>>

Next == NoInput \/ Glob \/ ScanFile \/ WriteReport \/ Rerun

Spec == Init /\ [][Next]_vars

\* ------------------------------------------------------------------------
\* find_anomalies.py followed by create_summary.py, both run in scripts/
\* ------------------------------------------------------------------------

\* The lines of the files of these runs, each as readlines() returns it: an
\* empty line, 'п###', and three lines that start like a line of the report:
\* 'Строка 7: ###', 'Тип: x (1 случаев) ###', 'Файл: ###'.
SummaryLines ==
    { <<10>>,
      <<1087, 35, 35, 35>> \o <<10>>,
      <<1057, 1090, 1088, 1086, 1082, 1072, 32, 55, 58, 32, 35, 35, 35>>
        \o <<10>>,
      <<1058, 1080, 1087, 58, 32, 120, 32, 40, 49, 32, 1089, 1083, 1091, 1095, 1072, 1077, 1074, 41, 32, 35, 35, 35>> \o <<10>>,
      <<1060, 1072, 1081, 1083, 58, 32, 35, 35, 35>> \o <<10>> }

SummaryFiles ==
    { [read |-> "utf8", lines |-> ls] : ls \in SeqsUpTo(SummaryLines, MaxLines) }

\* The second file of a directory with two files: one or two lines 'п###'.
SecondFiles ==
    { [read |-> "utf8", lines |-> Rep(<<1087, 35, 35, 35>> \o <<10>>, k)] : k \in 1..2 }

\* texts/ is empty, holds a.txt, or holds a.txt and b.txt.
SummaryDisks ==
    UNION { [{} -> SummaryFiles], [{FileNames[1]} -> SummaryFiles] }
      \cup { [name \in NameSet |-> IF name = FileNames[1] THEN f ELSE g] :
                f \in SummaryFiles, g \in SecondFiles }

\* The files of the corpus of an earlier run, one more than a section shows.
CorpusNames ==
    <<"w01.txt", "w02.txt", "w03.txt", "w04.txt", "w05.txt", "w06.txt", "w07.txt", "w08.txt", "w09.txt", "w10.txt", "w11.txt", "w12.txt", "w13.txt", "w14.txt", "w15.txt", "w16.txt", "w17.txt", "w18.txt", "w19.txt", "w20.txt", "w21.txt">>

\* The records of count lines l that follow each other from line first.
RecordsOf(l, first, count) ==
    [k \in 1..count |-> find_anomalies_in_line(l, first + k - 1)[1]]

\* 'п WXYZ' gets one latin_in_russian record, 'п#' one unusual_symbols record.
LatinLine == <<1087, 32, 87, 88, 89, 90>>
SymbolLine == <<1087, 35>>

\* The (filename, records) pairs of a.txt with exactly 50 latin_in_russian and
\* 100 unusual_symbols records and b.txt with 51 and 101.
BoundaryFiles ==
    [f \in 1..2 |->
        <<FileNames[f],
          RecordsOf(LatinLine, 1, ManyLatin + f - 1)
            \o RecordsOf(SymbolLine, ManyLatin + f, ManyUnusualSymbols + f - 1)>>]

\* The pairs of the 21 files of the corpus, with 51, 52 or 53
\* latin_in_russian records each.
CorpusFiles ==
    [f \in DOMAIN CorpusNames |->
        <<CorpusNames[f], RecordsOf(LatinLine, 1, ManyLatin + 1 + (f % 3))>>]

\* Reports an earlier run left: of a.txt and b.txt alone, and of the two with
\* the corpus.
EarlierReports ==
    { [exists |-> TRUE, content |-> ReportContent(BoundaryFiles)],
      [exists |-> TRUE, content |-> ReportContent(BoundaryFiles \o CorpusFiles)] }

SummaryInit ==
    /\ \/ disk \in SummaryDisks /\ report_file = NoFile
       \/ disk = << >> /\ report_file \in EarlierReports
    /\ pc = "start"
    /\ run = "first"
    /\ txt_files = << >>
    /\ queue = << >>
    /\ result = NoResult
    /\ scanned = << >>
    /\ files_with_anomalies = << >>
    /\ console = << >>
    /\ written = 0
    /\ first_run = NoResult
    /\ opened = << >>
    /\ data = NoResult
    /\ summary_file = NoFile
    /\ summary_console = << >>
    /\ spc = "ready"
    /\ LineIdle
    /\ GraphIdle

\* create_summary, run when main has ended.
CreateSummary ==
    /\ pc = "done"
    /\ spc = "ready"
    /\ \E parsed \in {parse_anomalies_report(report_file)} :
           /\ data' = parsed
           /\ IF "raised" \in DOMAIN parsed
              THEN /\ spc' = "raised"
                   /\ UNCHANGED <<summary_file, summary_console>>
              ELSE IF NoData(parsed)
              THEN /\ spc' = "returned"
                   /\ summary_console' = <<ReportNotFound>>
                   /\ UNCHANGED summary_file
              ELSE /\ spc' = "written"
                   /\ \E summary \in {SummaryContent(parsed.files)} :
                         /\ summary_file' = [exists |-> TRUE, content |-> summary]
                         /\ summary_console' =
                               summary
                           \o <<SummaryLine("saved", 0, << >>, 0),
                                SummaryLine("detailed", 0, << >>, 0)>>
    /\ UNCHANGED <<line_vars, run_vars, graph_vars>>

SummaryNext == NoInput \/ Glob \/ ScanFile \/ WriteReport \/ CreateSummary

SummarySpec == SummaryInit /\ [][SummaryNext]_vars

\* ------------------------------------------------------------------------
\* create_gephi_graph.py
\* ------------------------------------------------------------------------

\* '.txt'
TextTxt == <<46, 116, 120, 116>>

\* s.split(sep, maxsplit) for a separator of one character
RECURSIVE SplitMax(_, _, _)
SplitMax(s, sep, maxsplit) ==
    LET at == {i \in DOMAIN s : s[i] = sep}
    IN  IF maxsplit = 0 \/ at = {} THEN <<s>>
        ELSE LET i == CHOOSE i \in at : \A j \in at : i <= j
             IN  <<SubSeq(s, 1, i - 1)>>
                   \o SplitMax(SubSeq(s, i + 1, Len(s)), sep, maxsplit - 1)

\* parse_filename: None, or the dictionary of year, author, title, filename
parse_filename(filename) ==
    LET name == RemoveAll(filename, TextTxt)
        parts == SplitMax(name, 95, 2)
    IN  IF Len(parts) < 3 THEN NoResult
        ELSE [year |-> parts[1], author |-> parts[2], title |-> parts[3],
              filename |-> filename]

\* a < b for two strings: by the first character that differs, a prefix first
LexLess(a, b) ==
    \/ Len(a) < Len(b) /\ SubSeq(b, 1, Len(a)) = a
    \/ \E i \in 1..Min(Len(a), Len(b)) :
          /\ SubSeq(a, 1, i - 1) = SubSeq(b, 1, i - 1)
          /\ a[i] < b[i]

\* sorted(names)
sorted(names) ==
    [r \in 1..Cardinality(names) |->
        CHOOSE x \in names : Cardinality({y \in names : LexLess(y, x)}) = r - 1]

\* authors_to_works[parsed['author']].append(parsed): the list of a new author
\* is added after the others
append_work(pairs, parsed) ==
    IF \E k \in DOMAIN pairs : pairs[k][1] = parsed.author
    THEN [k \in DOMAIN pairs |->
             IF pairs[k][1] = parsed.author
             THEN <<pairs[k][1], Append(pairs[k][2], parsed)>>
             ELSE pairs[k]]
    ELSE Append(pairs, <<parsed.author, <<parsed>>>>)

\* Mutant: the pairs (i, j) with i <= j.
author_pairs_with_self(n) ==
    SelectSeq([k \in 1..(n * n) |-> <<((k - 1) \div n) + 1, ((k - 1) % n) + 1>>],
              LAMBDA p : p[1] <= p[2])

\* The pairs (i, j) of the two loops over author_works that pass 'if i < j',
\* in the order the loops reach them.
author_pairs(n) ==
    SelectSeq([k \in 1..(n * n) |-> <<((k - 1) \div n) + 1, ((k - 1) % n) + 1>>],
              LAMBDA p : p[1] < p[2])

\* tuple(sorted([node1_id, node2_id])): the ids are strings
edge_key_of(node1_id, node2_id) ==
    IF LexLess(node2_id, node1_id) THEN <<node2_id, node1_id>>
    ELSE <<node1_id, node2_id>>

\* The body of the loops over the works of one author, for the pairs that are
\* left: acc is [edges, edge_set, edge_id].
RECURSIVE add_edges(_, _, _, _)
add_edges(pairs, author_works, ids, acc) ==
    IF pairs = << >> THEN acc
    ELSE LET node1_id == ids[author_works[Head(pairs)[1]].filename]
             node2_id == ids[author_works[Head(pairs)[2]].filename]
             edge_key == edge_key_of(node1_id, node2_id)
         IN  add_edges(Tail(pairs), author_works, ids,
                IF edge_key \in acc.edge_set THEN acc
                ELSE [edges |-> Append(acc.edges,
                                       [id |-> Dec(acc.edge_id),
                                        source |-> node1_id,
                                        target |-> node2_id,
                                        weight |-> "1.0"]),
                      edge_set |-> acc.edge_set \cup {edge_key},
                      edge_id |-> acc.edge_id + 1])

\* Names of files of texts/ that '*.txt' matches: '1_A_x.txt', '2_A_y.txt',
\* '3_A_x_y.txt', '1_B_x.txt', '2_B_.txt', 'A_x.txt', 'x.txt', '__.txt',
\* '1__x.txt', '1_A.txt_y.txt'.
GraphNames ==
    { <<49, 95, 65, 95, 120>> \o TextTxt,
      <<50, 95, 65, 95, 121>> \o TextTxt,
      <<51, 95, 65, 95, 120, 95, 121>> \o TextTxt,
      <<49, 95, 66, 95, 120>> \o TextTxt,
      <<50, 95, 66, 95>> \o TextTxt,
      <<65, 95, 120>> \o TextTxt,
      <<120>> \o TextTxt,
      <<95, 95>> \o TextTxt,
      <<49, 95, 95, 120>> \o TextTxt,
      <<49, 95, 65>> \o TextTxt \o <<95, 121>> \o TextTxt }

GraphInit ==
    /\ texts_dir \in SUBSET GraphNames
    /\ gqueue = << >>
    /\ works = << >>
    /\ authors_to_works = << >>
    /\ nodes = << >>
    /\ node_map = << >>
    /\ author_queue = << >>
    /\ edges = << >>
    /\ edge_set = {}
    /\ edge_id = 0
    /\ output_file = NoGraph
    /\ gpc = "start"
    /\ LineIdle
    /\ RunIdle
    /\ SummaryIdle

\* txt_files = sorted(texts_dir.glob('*.txt'))
SortedGlob ==
    /\ gpc = "start"
    /\ gqueue' = sorted(texts_dir)
    /\ gpc' = "collect"
    /\ UNCHANGED <<texts_dir, works, authors_to_works, nodes, node_map,
                   author_queue, edges, edge_set, edge_id, output_file>>
    /\ UNCHANGED <<line_vars, run_vars, summary_vars>>

\* One pass of 'for txt_file in txt_files'.
CollectWork ==
    /\ gpc = "collect"
    /\ gqueue # << >>
    /\ LET parsed == parse_filename(Head(gqueue))
       IN  IF parsed # NoResult
           THEN /\ works' = Append(works, parsed)
                /\ authors_to_works' = append_work(authors_to_works, parsed)
           ELSE UNCHANGED <<works, authors_to_works>>
    /\ gqueue' = Tail(gqueue)
    /\ UNCHANGED <<texts_dir, nodes, node_map, author_queue, edges, edge_set,
                   edge_id, output_file, gpc>>
    /\ UNCHANGED <<line_vars, run_vars, summary_vars>>

\* The loop over the files has ended: nodes and node_map are made empty.
StartNodes ==
    /\ gpc = "collect"
    /\ gqueue = << >>
    /\ nodes' = << >>
    /\ node_map' = << >>
    /\ gpc' = "nodes"
    /\ UNCHANGED <<texts_dir, gqueue, works, authors_to_works, author_queue,
                   edges, edge_set, edge_id, output_file>>
    /\ UNCHANGED <<line_vars, run_vars, summary_vars>>

\* One pass of 'for idx, work in enumerate(works)'.
AddNode ==
    /\ gpc = "nodes"
    /\ Len(nodes) < Len(works)
    /\ LET idx == Len(nodes)
           work == works[idx + 1]
           node_id == Dec(idx)
       IN  /\ nodes' = Append(nodes, [id |-> node_id, label |-> work.title,
                                      year |-> work.year, author |-> work.author,
                                      title |-> work.title,
                                      filename |-> work.filename])
           /\ node_map' = (work.filename :> node_id) @@ node_map
    /\ UNCHANGED <<texts_dir, gqueue, works, authors_to_works, author_queue,
                   edges, edge_set, edge_id, output_file, gpc>>
    /\ UNCHANGED <<line_vars, run_vars, summary_vars>>

\* The loop over the works has ended: edge_id = 0, edge_set = set().
StartEdges ==
    /\ gpc = "nodes"
    /\ Len(nodes) = Len(works)
    /\ edges' = << >>
    /\ edge_id' = 0
    /\ edge_set' = {}
    /\ author_queue' = authors_to_works
    /\ gpc' = "edges"
    /\ UNCHANGED <<texts_dir, gqueue, works, authors_to_works, nodes, node_map,
                   output_file>>
    /\ UNCHANGED <<line_vars, run_vars, summary_vars>>

\* One pass of 'for author, author_works in authors_to_works.items()'.
AddAuthorEdges ==
    /\ gpc = "edges"
    /\ author_queue # << >>
    /\ LET author_works == Head(author_queue)[2]
           acc == add_edges(author_pairs(Len(author_works)), author_works, node_map,
                            [edges |-> edges, edge_set |-> edge_set,
                             edge_id |-> edge_id])
       IN  /\ edges' = acc.edges
           /\ edge_set' = acc.edge_set
           /\ edge_id' = acc.edge_id
    /\ author_queue' = Tail(author_queue)
    /\ UNCHANGED <<texts_dir, gqueue, works, authors_to_works, nodes, node_map,
                   output_file, gpc>>
    /\ UNCHANGED <<line_vars, run_vars, summary_vars>>

\* The loop over the authors has ended: the document is written.
SaveGraph ==
    /\ gpc = "edges"
    /\ author_queue = << >>
    /\ output_file' = [exists |-> TRUE, nodes |-> nodes, edges |-> edges]
    /\ gpc' = "done"
    /\ UNCHANGED <<texts_dir, gqueue, works, authors_to_works, nodes, node_map,
                   author_queue, edges, edge_set, edge_id>>
    /\ UNCHANGED <<line_vars, run_vars, summary_vars>>

GraphNext ==
    SortedGlob \/ CollectWork \/ StartNodes \/ AddNode \/ StartEdges
      \/ AddAuthorEdges \/ SaveGraph

GraphSpec == GraphInit /\ [][GraphNext]_vars

\* ------------------------------------------------------------------------
\* Properties of the classifier (checked under LineSpec)
\* ------------------------------------------------------------------------

Classified == lpc \in {"classified", "analyzed"}

Kinds(records) == {records[k].type : k \in DOMAIN records}

\* A letter of the Cyrillic block.
IsCyrillicLetter(c) == c \in 1024..1279

\* C1: for every string of length >= 40 (40 included) drawn from the base64
\* alphabet that contains '=' or '/', find_anomalies_in_line returns exactly
\* one record, of kind token_like.
C1_Base64LineIsToken ==
    ( /\ Classified
      /\ Len(line) >= Base64MinLen
      /\ Chars(line) \subseteq base64_chars
      /\ (61 \in Chars(line) \/ 47 \in Chars(line)) )
    => (Len(anomalies) = 1 /\ anomalies[1].type = "token_like")

\* C2: for a line without any Cyrillic letter (digits, Latin letters and
\* other symbols allowed), find_anomalies_in_line never returns a record of
\* kind latin_in_russian or unusual_symbols.
C2_NoCyrillicNoCharsetRecord ==
    (Classified /\ \A i \in DOMAIN line : ~IsCyrillicLetter(line[i]))
    => Kinds(anomalies) \cap {"latin_in_russian", "unusual_symbols"} = {}

\* The lines the classifier must stay silent on: empty or whitespace only,
\* trimmed text matching a chapter pattern, or a trimmed text shorter than 30
\* characters that is upper case and alphabetic apart from spaces.
SuppressedLine(l) ==
    LET t == Strip(l)
    IN  \/ t = << >>
        \/ MatchesChapterPattern(t)
        \/ (Len(t) < ShortTitleLen /\ IsUpperStr(t) /\ IsAlphaIgnoringSpaces(t))

\* C3: find_anomalies_in_line returns the empty list for an empty or
\* whitespace-only line, a line matching a chapter pattern and a short
\* all-caps alphabetic line, and no record of the result of analyze_file
\* refers to such a line of the file.
C3_NoRecordForSuppressedLine ==
    /\ (Classified /\ SuppressedLine(line)) => anomalies = << >>
    /\ lpc = "analyzed" =>
          \A k \in DOMAIN file_result.anomalies :
              ~SuppressedLine(
                  FileEndingIn(line, line_num).lines[file_result.anomalies[k].line_num])

\* C3 witness: a 'ГЛАВА <numeral>' heading that also holds a '#' was analyzed
\* and the file has no record.
C3_Witness ==
    /\ lpc = "analyzed"
    /\ MatchesHeadingWord(WordGLAVA, Strip(line))
    /\ 35 \in Chars(line)
    /\ file_result.anomalies = << >>

\* 'Привет XYZ мир' and 'Привет WXYZ мир'
LineXYZ ==
    <<1055, 1088, 1080, 1074, 1077, 1090, 32, 88, 89, 90, 32, 1084, 1080, 1088>>
LineWXYZ ==
    <<1055, 1088, 1080, 1074, 1077, 1090, 32, 87, 88, 89, 90, 32, 1084, 1080, 1088>>

\* Exactly one record, latin_in_russian at line_num, whose chars hold the
\* offset of every Latin letter of the line.
OneLatinRecord ==
    /\ Len(anomalies) = 1
    /\ anomalies[1].type = "latin_in_russian"
    /\ anomalies[1].line_num = line_num
    /\ {anomalies[1].chars[k][1] : k \in DOMAIN anomalies[1].chars}
          = {i - 1 : i \in {j \in DOMAIN line : IsLatin(line[j])}}

\* C4 as stated: classifying 'Привет XYZ мир' at line n returns exactly one
\* record, latin_in_russian at line n, with the offset of every Latin letter.
C4_Original == (Classified /\ line = LineXYZ) => OneLatinRecord

\* C4 amended: 'Привет XYZ мир' has three Latin letters, not more than three,
\* and yields no record; 'Привет WXYZ мир', with four, yields exactly one
\* record, latin_in_russian at line n, with the offset of every Latin letter.
C4_Amended ==
    /\ (Classified /\ line = LineXYZ) => anomalies = << >>
    /\ (Classified /\ line = LineWXYZ) => OneLatinRecord

\* C4 witness: 'Привет WXYZ мир' was classified and its record has four offsets.
C4_Witness ==
    /\ Classified
    /\ line = LineWXYZ
    /\ Len(anomalies) = 1
    /\ Len(anomalies[1].chars) = 4

\* C6: whenever find_anomalies_in_line returns a token_like record, that
\* record is the only record it returns for the line.
C6_TokenRecordIsAlone ==
    (Classified /\ "token_like" \in Kinds(anomalies)) => Len(anomalies) = 1

\* C6 witness: 41 'A' followed by '1=' was classified as a token; the digit
\* and the Latin letters would otherwise make latin_in_russian and
\* unusual_symbols records.
C6_Witness ==
    /\ Classified
    /\ line = Rep(65, Base64MinLen + 1) \o <<49, 61>>
    /\ anomalies = <<TokenRecord(line, line_num)>>
    /\ LatinRecords(line, line_num) # << >>
    /\ SymbolRecords(line, line_num) # << >>

\* C10 as stated, with B the bound of the superseded revision: the line text
\* of every record has at most B characters.
C10_Original ==
    Classified => \A k \in DOMAIN anomalies : Len(anomalies[k].line) <= LineTextBound

\* C10 amended: the line text of every record is the whole trimmed line, not
\* cut at any length.
C10_LineTextIsTrimmedLine ==
    Classified => \A k \in DOMAIN anomalies : anomalies[k].line = Strip(line)

\* C10 witness: a record whose line text is longer than the bound of the
\* superseded revision.
C10_Witness ==
    /\ Classified
    /\ anomalies # << >>
    /\ Len(anomalies[1].line) > LineTextBound

\* ------------------------------------------------------------------------
\* Properties of a run of main (checked under Spec)
\* ------------------------------------------------------------------------

Last(s) == s[Len(s)]

\* The number of records of a kind for a line number.
CountOf(records, n, kind) ==
    Cardinality({k \in DOMAIN records : records[k].line_num = n /\ records[k].type = kind})

FailedRead(file) == file.read \in {"undecodable", "cp1251_unreadable", "unreadable"}

\* The names the report has a section for.
ReportedFiles(content) ==
    {content[k].name : k \in {j \in DOMAIN content : content[j].tag = "file"}}

\* C7: a file that cannot be read gives an error result without an anomaly
\* list; during the loop every file is either scanned or still to be visited,
\* whatever failed before; and when the run has ended every file was scanned
\* once, the report was written, and it has no section for a failed file.
C7_FailedFileIsSkipped ==
    /\ (scanned # << >> /\ FailedRead(disk[Last(scanned)]))
          => DOMAIN result = {"error"}
    /\ pc = "scan" =>
          {scanned[k] : k \in DOMAIN scanned} \cup {queue[k] : k \in DOMAIN queue}
              = DOMAIN disk
    /\ (pc = "done" /\ DOMAIN disk # {}) =>
          /\ {scanned[k] : k \in DOMAIN scanned} = DOMAIN disk
          /\ Len(scanned) = Cardinality(DOMAIN disk)
          /\ written = 1
          /\ report_file.exists
          /\ \A f \in DOMAIN disk :
                FailedRead(disk[f]) => f \notin ReportedFiles(report_file.content)

\* C7 witness: the first file failed, the second was scanned and has a section
\* in the written report.
C7_Witness ==
    /\ pc = "done"
    /\ Len(scanned) = 2
    /\ FailedRead(disk[scanned[1]])
    /\ written = 1
    /\ ReportedFiles(report_file.content) = {scanned[2]}

NoInputMessage == Out("no_txt_files", "", "", 0, << >>, << >>)

\* C8: with no *.txt file the run ends after printing one message; no file
\* is scanned and the report file is neither written nor changed.
C8_NoInputNoReport ==
    [][DOMAIN disk = {} =>
          /\ report_file' = report_file
          /\ written' = 0
          /\ scanned' = << >>
          /\ (pc = "start" => (pc' = "done" /\ console' = <<NoInputMessage>>))]_vars

\* C8 witness: a run without input files has ended and the report of an
\* earlier run is still there.
C8_Witness ==
    /\ pc = "done"
    /\ DOMAIN disk = {}
    /\ console = <<NoInputMessage>>
    /\ report_file = StaleReport
    /\ written = 0

\* C9: the second run over the same files leaves the same report as the first.
C9_SecondRunWritesSameReport ==
    (run = "second" /\ pc = "done") => report_file = first_run.report

\* C9 witness: the second run listed the two files in another order than the
\* first, both have a section, and the report was written again.
C9_Witness ==
    /\ run = "second"
    /\ pc = "done"
    /\ Len(txt_files) = 2
    /\ txt_files # first_run.glob
    /\ Len(files_with_anomalies) = 2
    /\ written = 1

\* ------------------------------------------------------------------------
\* Properties of analyze_file in a run of main (checked under Spec)
\* ------------------------------------------------------------------------

\* C12: for a file that was read, analyze_file returns total_lines equal to
\* the number of lines of the file, blank lines counted, and an anomaly list
\* whose line numbers never decrease from one record to the next and all lie
\* in 1..total_lines.
C12_TotalLinesAndLineNumbers ==
    "anomalies" \in DOMAIN result =>
        LET records == result.anomalies
        IN  /\ result.total_lines = Len(disk[Last(scanned)].lines)
            /\ \A k \in 1..(Len(records) - 1) :
                  records[k].line_num <= records[k + 1].line_num
            /\ \A k \in DOMAIN records : records[k].line_num \in 1..result.total_lines

\* C12 witness: a file whose first line is blank and whose second line has
\* records was analyzed: two lines are counted and the records are at line 2.
C12_Witness ==
    /\ "anomalies" \in DOMAIN result
    /\ Len(disk[Last(scanned)].lines) = 2
    /\ Strip(disk[Last(scanned)].lines[1]) = << >>
    /\ result.total_lines = 2
    /\ Len(result.anomalies) > 1
    /\ \A k \in DOMAIN result.anomalies : result.anomalies[k].line_num = 2

\* ------------------------------------------------------------------------
\* The character-set and run-length checks (checked under LineSpec)
\* ------------------------------------------------------------------------

\* A Cyrillic letter of AllowedCharset: one of the 33 upper-case or 33
\* lower-case letters.
IsAllowedCyrillicLetter(c) == c \in (1040..1103) \cup {1025, 1105}

\* Token-like as section 4.1 states it: at least 40 characters, all of the
\* base64 alphabet, with '=' or '/'.
TokenLikeLine(l) ==
    /\ Len(Strip(l)) >= Base64MinLen
    /\ Chars(Strip(l)) \subseteq base64_chars
    /\ (61 \in Chars(Strip(l)) \/ 47 \in Chars(Strip(l)))

\* The lines steps 3 of section 4.1 is about: with a Cyrillic letter, not
\* blank, not a chapter heading, not token-like.
CyrillicProseLine(l) ==
    /\ \E i \in DOMAIN l : IsAllowedCyrillicLetter(l[i])
    /\ ~SuppressedLine(l)
    /\ ~TokenLikeLine(l)

\* The positions of the ASCII Latin letters of a line.
LatinPositions(l) == {i \in DOMAIN l : IsLatin(l[i])}

\* The k-th smallest member of a set of positions.
KthOf(P, k) == CHOOSE i \in P : Cardinality({j \in P : j <= i}) = k

\* The records of a kind among the classifier's result.
OfKind(kind) == SelectSeq(anomalies, LAMBDA a : a.type = kind)

\* C13: for a line with a Cyrillic letter that is neither blank, a chapter
\* heading nor token-like, a latin_in_russian record is returned iff the line
\* has more than 3 ASCII Latin letters and is not a normal-Latin-usage
\* exception; the chars of the record are the (offset, char) pairs of the
\* first min(count, 10) Latin letters, in ascending offset order.
C13_LatinRecordIffMoreThanThree ==
    (Classified /\ CyrillicProseLine(line)) =>
        LET P == LatinPositions(line)
            emitted == OfKind("latin_in_russian")
        IN  /\ (emitted # << >>)
                  <=> (Cardinality(P) > LatinThreshold /\ ~is_normal_latin_usage(line))
            /\ \A r \in DOMAIN emitted :
                  /\ Len(emitted[r].chars) = Min(Cardinality(P), SampleCap)
                  /\ \A k \in DOMAIN emitted[r].chars :
                        emitted[r].chars[k] = <<KthOf(P, k) - 1, line[KthOf(P, k)]>>

\* C13 witness: a line with a Cyrillic letter and more than 10 Latin letters
\* was classified and its latin_in_russian record holds 10 pairs.
C13_Witness ==
    /\ Classified
    /\ CyrillicProseLine(line)
    /\ Cardinality(LatinPositions(line)) > SampleCap
    /\ Len(OfKind("latin_in_russian")) = 1
    /\ Len(OfKind("latin_in_russian")[1].chars) = SampleCap

\* The abbreviations the exception lists, in upper case: ISBN, HTTP, HTTPS,
\* WWW, COM, RU, ORG, NET.
ListedAbbrevs ==
    { <<73, 83, 66, 78>>, <<72, 84, 84, 80>>, <<72, 84, 84, 80, 83>>,
      <<87, 87, 87>>, <<67, 79, 77>>, <<82, 85>>,
      <<79, 82, 71>>, <<78, 69, 84>> }

\* Every Latin letter of the line is in a Latin word, and every Latin word is
\* a listed abbreviation in some letter case or has at most 3 letters.
OnlyAbbrevsAndShortWords(l) ==
    LET words == LatinWords(l)
    IN  /\ words # {}
        /\ LatinPositions(l) \subseteq UNION { w[1]..w[2] : w \in words }
        /\ \A w \in words :
              \/ Upper(SubSeq(l, w[1], w[2])) \in ListedAbbrevs
              \/ w[2] - w[1] + 1 <= ShortWordLen

\* C14: for a line with a Cyrillic letter and more than 3 Latin letters in
\* which every Latin word is a listed common abbreviation (ISBN, http, https,
\* www, com, ru, org, net, in any letter case) or has at most 3 letters,
\* is_normal_latin_usage is true and no latin_in_russian record is returned.
C14_AbbreviationsAreNormalUsage ==
    ( /\ Classified
      /\ CyrillicProseLine(line)
      /\ Cardinality(LatinPositions(line)) > LatinThreshold
      /\ OnlyAbbrevsAndShortWords(line) )
    => (is_normal_latin_usage(line) /\ OfKind("latin_in_russian") = << >>)

\* The positions of the characters that are outside AllowedCharset, are no
\* ASCII Latin letters and are not in the typographic whitelist.
UnusualPositions(l) ==
    {i \in DOMAIN l : l[i] \notin ALLOWED_CHARS /\ ~IsLatin(l[i]) /\ l[i] \notin normal_symbols}

\* C15: for a line with a Cyrillic letter that is neither blank, a chapter
\* heading nor token-like, an unusual_symbols record is returned iff some
\* character of the line is outside AllowedCharset, is no ASCII Latin letter
\* and is not in the typographic whitelist; the chars of the record are at
\* most 10 (offset, char, hex code point) triples, each of such a character
\* of the line, none of a whitelisted character.
C15_UnusualSymbolsIffOutsideWhitelist ==
    (Classified /\ CyrillicProseLine(line)) =>
        LET P == UnusualPositions(line)
            emitted == OfKind("unusual_symbols")
        IN  /\ (emitted # << >>) <=> (P # {})
            /\ \A r \in DOMAIN emitted :
                  /\ Len(emitted[r].chars) = Min(Cardinality(P), SampleCap)
                  /\ \A k \in DOMAIN emitted[r].chars :
                        /\ emitted[r].chars[k] =
                              <<KthOf(P, k) - 1, line[KthOf(P, k)], Hex(line[KthOf(P, k)])>>
                        /\ emitted[r].chars[k][2] \notin normal_symbols

\* C15 witness: a line with a Cyrillic letter and more than 10 unusual
\* characters was classified; its record holds 10 triples.
C15_Witness ==
    /\ Classified
    /\ CyrillicProseLine(line)
    /\ Cardinality(UnusualPositions(line)) > SampleCap
    /\ Len(OfKind("unusual_symbols")) = 1
    /\ Len(OfKind("unusual_symbols")[1].chars) = SampleCap

\* The lines the run-length check is about: not blank, not a chapter heading,
\* not token-like.
CheckedLine(l) == ~SuppressedLine(l) /\ ~TokenLikeLine(l)

\* The line has 3 consecutive characters none of which is a word character,
\* whitespace, a character of the Cyrillic block or a member of punct.
HasUnusualRun(l, punct) ==
    \E i \in 1..(Len(l) - 2) :
        \A j \in i..(i + 2) :
            /\ ~IsWord(l[j])
            /\ ~IsSpace(l[j])
            /\ l[j] \notin 1024..1279
            /\ l[j] \notin punct

\* The fixed set of the run-length pattern: the punctuation of AllowedCharset
\* and the signs degree, number and section.
RunPunctuation == PUNCTUATION \cup {176, 8470, 167}

\* C16 as stated: for every line that is not blank, a chapter heading or
\* token-like, a multiple_unusual_chars record is returned iff the raw line
\* has a run of 3 or more characters that are no word characters, whitespace,
\* Cyrillic-block characters or punctuation of AllowedCharset.
C16_Original ==
    (Classified /\ CheckedLine(line)) =>
        ((OfKind("multiple_unusual_chars") # << >>) <=> HasUnusualRun(line, PUNCTUATION))

\* C16 amended: the same with the fixed set of the pattern, which is the
\* punctuation of AllowedCharset and the three signs degree, number, section;
\* it holds whether or not the line has a Cyrillic letter and whether or not
\* latin_in_russian or unusual_symbols was returned for it.
C16_RunCheckIsIndependent ==
    (Classified /\ CheckedLine(line)) =>
        /\ (OfKind("multiple_unusual_chars") # << >>) <=> HasUnusualRun(line, RunPunctuation)
        /\ Len(OfKind("multiple_unusual_chars")) <= 1

\* C16 witness: a line without any Cyrillic letter or digit, for which the
\* character-set check is not made, has a run and got the record alone.
C16_Witness ==
    /\ Classified
    /\ CheckedLine(line)
    /\ ~has_russian(line)
    /\ Len(anomalies) = 1
    /\ anomalies[1].type = "multiple_unusual_chars"

\* The file the last analyze_file was called on.
LastFile == disk[Last(scanned)]

IsFileResult(r) == DOMAIN r = {"total_lines", "anomalies"}
IsErrorResult(r) == DOMAIN r = {"error"} /\ r.error # ""

\* C17: analyze_file opens the file as UTF-8 first and as cp1251 only after
\* a UTF-8 decoding failure: a UTF-8 success makes no cp1251 read; a failure
\* of the first read that is no decoding failure gives an error result with a
\* message and no cp1251 read; any failure of the cp1251 read gives an error
\* result; and every outcome is either a FileResult or an error result.
C17_Utf8FirstThenCp1251 ==
    scanned # << >> =>
        /\ Head(opened) = "utf-8"
        /\ opened \in {<<"utf-8">>, <<"utf-8", "cp1251">>}
        /\ (opened = <<"utf-8", "cp1251">>)
              <=> LastFile.read \in {"cp1251", "undecodable", "cp1251_unreadable"}
        /\ LastFile.read = "utf8" => (opened = <<"utf-8">> /\ IsFileResult(result))
        /\ LastFile.read = "unreadable" => (opened = <<"utf-8">> /\ IsErrorResult(result))
        /\ LastFile.read \in {"undecodable", "cp1251_unreadable"} => IsErrorResult(result)
        /\ LastFile.read = "cp1251" => IsFileResult(result)
        /\ IsFileResult(result) # IsErrorResult(result)

\* C17 witness: the first file was decoded as cp1251 after the UTF-8 failure;
\* the second could not be opened and gave an error after one read attempt.
C17_Witness ==
    /\ Len(scanned) = 2
    /\ disk[scanned[1]].read = "cp1251"
    /\ LastFile.read = "unreadable"
    /\ opened = <<"utf-8">>
    /\ IsErrorResult(result)

\* ------------------------------------------------------------------------
\* Properties of create_summary (checked under SummarySpec)
\* ------------------------------------------------------------------------

Summarised == spc = "written"

\* The kind a section of the summary counts, and the count a file must exceed
\* to be in the list of the section.
SectionKind(section) ==
    CASE section = 1 -> "token_like"
      [] section = 2 -> "multiple_unusual_chars"
      [] section = 3 -> "unusual_symbols"
      [] section = 4 -> "latin_in_russian"

SectionLeast(section) ==
    CASE section \in {1, 2} -> 0
      [] section = 3 -> ManyUnusualSymbols
      [] section = 4 -> ManyLatin

\* The '  • name: count ...' lines of a section of summary_report.txt, in order.
Entries(section) ==
    SelectSeq(summary_file.content,
              LAMBDA l : l.tag = "entry" /\ l.section = section)

\* The '... и еще N файлов' lines of a section.
MoreLines(section) ==
    SelectSeq(summary_file.content,
              LAMBDA l : l.tag = "more" /\ l.section = section)

\* The parsed files whose count of the section's kind is over its threshold.
Qualifying(section) ==
    {r \in DOMAIN data.files :
        Len(data.files[r].lists[SectionKind(section)]) > SectionLeast(section)}

\* The qualifying files that come before file r when the list is sorted:
\* those with a larger count, and those with the same count met earlier.
AheadOf(section, r) ==
    LET count(q) == Len(data.files[q].lists[SectionKind(section)])
    IN  {q \in Qualifying(section) :
            count(q) > count(r) \/ (count(q) = count(r) /\ q < r)}

\* A file is listed in a section with its count.
ListedIn(section, r) ==
    \E k \in DOMAIN Entries(section) :
        /\ Entries(section)[k].name = data.files[r].filename
        /\ Entries(section)[k].num = Len(data.files[r].lists[SectionKind(section)])

NonIncreasing(entries) ==
    \A j, k \in DOMAIN entries : j < k => entries[j].num >= entries[k].num

\* C11 as stated: in the written summary a file is listed in section 3 iff it
\* has more than 100 unusual_symbols lines, in section 4 iff more than 50
\* latin_in_russian lines, in sections 1 and 2 iff at least one token_like /
\* multiple_unusual_chars line, and the files of every section are in
\* non-increasing order of count.
C11_Original ==
    Summarised =>
        \A section \in 1..4 :
            /\ \A r \in DOMAIN data.files :
                   ListedIn(section, r) <=> r \in Qualifying(section)
            /\ NonIncreasing(Entries(section))

\* C11 amended: sections 1 and 2 list every file with at least one line of
\* their kind; sections 3 and 4 list a file iff its count is over the
\* threshold (more than 100, more than 50) and fewer than 20 files over the
\* threshold come before it by count, and say how many files over the
\* threshold are not shown; every section is in non-increasing order of count.
C11_ListedByThresholdTopTwenty ==
    Summarised =>
        \A section \in 1..4 :
            /\ \A r \in DOMAIN data.files :
                   ListedIn(section, r) <=>
                       /\ r \in Qualifying(section)
                       /\ section \in {3, 4} =>
                              Cardinality(AheadOf(section, r)) < TopFiles
            /\ Len(Entries(section)) <= Cardinality(Qualifying(section))
            /\ section \in {3, 4} =>
                   LET rest == Cardinality(Qualifying(section)) - TopFiles
                   IN  IF rest > 0
                       THEN /\ Len(MoreLines(section)) = 1
                            /\ MoreLines(section)[1].num = rest
                       ELSE MoreLines(section) = << >>
            /\ section \in {1, 2} => MoreLines(section) = << >>
            /\ NonIncreasing(Entries(section))

\* C11 witness: the summary of a report in which one file has exactly 50
\* latin_in_russian and 100 unusual_symbols lines and 22 files have more than
\* 50 latin_in_russian lines: section 3 lists one file, section 4 lists 20
\* files with different counts and leaves two out.
C11_Witness ==
    /\ Summarised
    /\ \E r \in DOMAIN data.files :
           /\ Len(data.files[r].lists["latin_in_russian"]) = ManyLatin
           /\ Len(data.files[r].lists["unusual_symbols"]) = ManyUnusualSymbols
    /\ Len(Entries(3)) = 1
    /\ Len(Entries(4)) = TopFiles
    /\ Entries(4)[1].num > Entries(4)[TopFiles].num
    /\ Len(MoreLines(4)) = 1
    /\ MoreLines(4)[1].num = 2

\* The number of records of a kind among the records of a scanned file.
RecordsOfKind(records, kind) ==
    Cardinality({j \in DOMAIN records : records[j].type = kind})

\* The line numbers the parser collected for a file name and a kind.
CollectedFor(name, kind) ==
    LET at == {r \in DOMAIN data.files : data.files[r].filename = NameText(name)}
    IN  IF at = {} THEN << >> ELSE data.files[CHOOSE r \in at : TRUE].lists[kind]

\* C18: when create_summary has read the report main wrote in this run,
\* parsing did not fail, and for every file section and every kind the
\* parser collected as many line numbers as the scan produced records of
\* that kind for the file, whatever the text of the lines.
C18_RoundTripCounts ==
    (spc # "ready" /\ written = 1) =>
        /\ spc # "raised"
        /\ "files" \in DOMAIN data
        /\ \A k \in DOMAIN files_with_anomalies :
               \A kind \in ParsedKinds :
                   Len(CollectedFor(files_with_anomalies[k][1], kind))
                       = RecordsOfKind(files_with_anomalies[k][2], kind)

\* The line '... не найдены' of a section of the summary is present.
ReportsNoFindings(section) ==
    \E k \in DOMAIN summary_file.content :
        /\ summary_file.content[k].tag = "none"
        /\ summary_file.content[k].section = section

\* C19: when create_summary has run on a report that exists and has no file
\* section, it has written summary_report.txt with each of the four sections
\* saying that nothing was found, and has not printed that the report was
\* not found.
C19_NoFindingsIsNormal ==
    (spc # "ready" /\ report_file.exists /\ ReportedFiles(report_file.content) = {}) =>
        /\ spc = "written"
        /\ summary_file.exists
        /\ \A section \in 1..4 : ReportsNoFindings(section)
        /\ \A k \in DOMAIN summary_console : summary_console[k] # ReportNotFound

\* ------------------------------------------------------------------------
\* Properties of create_gephi_graph (checked under GraphSpec)
\* ------------------------------------------------------------------------

GraphSaved == gpc = "done" /\ output_file.exists

\* The positions of the underscores of a file name.
Underscores(filename) == {i \in DOMAIN filename : filename[i] = 95}

\* The name has at least three parts separated by underscores.
HasThreeParts(filename) == Cardinality(Underscores(filename)) >= 2

\* The name ends in '.txt' and has no other '.txt'.
PlainName(filename) ==
    {i \in DOMAIN filename : StartsWith(SubSeq(filename, i, Len(filename)), TextTxt)}
        = {Len(filename) - 3}

\* The characters between the first and the second underscore.
BetweenUnderscores(filename) ==
    LET first == CHOOSE i \in Underscores(filename) :
                     \A j \in Underscores(filename) : i <= j
        second == CHOOSE i \in Underscores(filename) \ {first} :
                     \A j \in Underscores(filename) \ {first} : i <= j
    IN  SubSeq(filename, first + 1, second - 1)

\* The edges of the saved graph that join the nodes with ids a and b.
EdgesBetween(a, b) ==
    {k \in DOMAIN output_file.edges :
        {output_file.edges[k].source, output_file.edges[k].target} = {a, b}}

\* C20: the saved graph has one node for every file of texts/ whose name has
\* at least three underscore-separated parts and no other node, the author of
\* a node is the second part of its name, and the edges are exactly one edge,
\* in one direction, for every two different nodes with the same author: no
\* edge from a node to itself, no second edge for a pair, no edge between
\* nodes of different authors, and the edges have the ids 0 .. k-1.
C20_OneEdgePerSameAuthorPair ==
    GraphSaved =>
        LET saved == output_file.nodes
            links == output_file.edges
        IN  /\ {saved[n].filename : n \in DOMAIN saved}
                  = {f \in texts_dir : HasThreeParts(f)}
            /\ \A m, n \in DOMAIN saved :
                  m # n => /\ saved[m].filename # saved[n].filename
                           /\ saved[m].id # saved[n].id
            /\ \A n \in DOMAIN saved :
                  PlainName(saved[n].filename) =>
                      saved[n].author = BetweenUnderscores(saved[n].filename)
            /\ \A k \in DOMAIN links :
                  /\ links[k].id = Dec(k - 1)
                  /\ links[k].source # links[k].target
                  /\ \E m, n \in DOMAIN saved :
                        links[k].source = saved[m].id /\ links[k].target = saved[n].id
            /\ \A m, n \in DOMAIN saved :
                  m # n =>
                      Cardinality(EdgesBetween(saved[m].id, saved[n].id))
                          = IF saved[m].author = saved[n].author THEN 1 ELSE 0

\* C20 witness: a graph was saved for a directory with three works of one
\* author, a work of another author and a file without a node: four nodes,
\* and three edges with the ids 0, 1, 2.
C20_Witness ==
    /\ GraphSaved
    /\ Cardinality(texts_dir) = 5
    /\ Len(output_file.nodes) = 4
    /\ Len(output_file.edges) = 3
    /\ \E n \in DOMAIN output_file.nodes :
          \A k \in DOMAIN output_file.edges :
             output_file.nodes[n].id
                 \notin {output_file.edges[k].source, output_file.edges[k].target}

====
